---- MODULE Spec2Model ----
(***************************************************************************)
(* Model of redux-logic's execution core as found in this repository:     *)
(*   createLogic            (src/unnamed/part_001)                         *)
(*   createLogicMiddleware  (src/unnamed/part_000)                         *)
(*   logicWrapper, createLogicAction$  (src/src/logicWrapper.js)           *)
(*                                                                         *)
(* One step of the model is one synchronous run of JavaScript: a call of  *)
(* the middleware entry point, a timer firing, a promise settling, or a   *)
(* hook calling one of the callbacks it was handed (allow, reject,        *)
(* dispatch, done).  The store and the next middleware are external       *)
(* consumers; the calls they receive are recorded in storeLog and         *)
(* nextLog.                                                                *)
(***************************************************************************)
EXTENDS Integers, Sequences, FiniteSets, TLC

\* ------------------------------------------------------------------------
\* Bounds of the exploration
\* ------------------------------------------------------------------------
\* number of calls of the middleware entry point
MaxActions == 2
\* number of dispatch() calls the process hooks make, all instances together
MaxDispatch == 2
\* number of calls of whenComplete
MaxWaiters == 1
\* number of subscriptions of actionOut$ the middleware makes: the first when
\* it is applied to the store, one more per call of replaceLogic or addLogic
MaxSubs == 2

\* ------------------------------------------------------------------------
\* JavaScript values
\* ------------------------------------------------------------------------
Undefined == [undef |-> TRUE]

Truthy(v) == v # Undefined

\* the types of the actions handed to the entry point; an intercept hook may
\* also turn an action into one of type "B"
Types == {"A", "C"}

\* an action handed to the entry point: the n-th call, of type t
Action(t, n) == [type |-> t, id |-> n, x |-> 0]

UNHANDLED_LOGIC_ERROR == "UNHANDLED_LOGIC_ERROR"

\* type patterns (type, cancelType): absent, a string, an array, a RegExp
NoPattern == [kind |-> "none"]
Str(s) == [kind |-> "str", s |-> s]
Arr(a) == [kind |-> "arr", a |-> a]
Re(m) == [kind |-> "re", m |-> m]

\* [].concat(p).concat(q) on patterns: arrays are spliced, absent adds nothing
ConcatPattern(list, p) ==
    IF p.kind = "none" THEN list
    ELSE IF p.kind = "arr" THEN list \o p.a
    ELSE Append(list, p)

\* mutant: the wildcard is a type like any other
matchesType_NoWildcard(tStrArrRe, type) ==
    IF tStrArrRe.kind = "none" \/ tStrArrRe = Str("") THEN FALSE
    ELSE IF tStrArrRe.kind = "str" THEN tStrArrRe.s = type
    ELSE IF tStrArrRe.kind = "arr"
         THEN \E n \in 1..Len(tStrArrRe.a) :
                 tStrArrRe.a[n] # Str("") /\ tStrArrRe.a[n].s = type
    ELSE type \in tStrArrRe.m

RECURSIVE matchesType(_, _)
\* an absent pattern and the empty string are falsy
matchesType(tStrArrRe, type) ==
    IF tStrArrRe.kind = "none" \/ tStrArrRe = Str("") THEN FALSE
    ELSE IF tStrArrRe.kind = "str" THEN (tStrArrRe.s = type \/ tStrArrRe.s = "*")
    ELSE IF tStrArrRe.kind = "arr"
         THEN \E n \in 1..Len(tStrArrRe.a) : matchesType(tStrArrRe.a[n], type)
    ELSE type \in tStrArrRe.m

\* ------------------------------------------------------------------------
\* createLogic: the unit definitions
\* ------------------------------------------------------------------------
\* the identity validate hook createLogic installs when the unit declares
\* neither validate nor transform: it calls allow(action) synchronously
identityValidation == [sync |-> TRUE, decisions |-> {}]

\* a validate hook of the unit's author: it calls allow or reject later,
\* once, with one of the decisions of its repertoire
Validate(decisions) == [sync |-> FALSE, decisions |-> decisions]

Decision(sp, act, useDispatch) ==
    [shouldProcess |-> sp, act |-> act, useDispatch |-> useDispatch]

\* a process hook: its declared arity, what an invocation may do
\* synchronously (return undefined, a plain value or a promise, or throw)
\* and what it may hand to dispatch()
Process(arity, behaviours, items) ==
    [arity |-> arity, behaviours |-> behaviours, items |-> items]

\* an object of options: a function from the names of the properties
\* that are defined to their values
NoOptions == << >>

IsSet(obj, propName) == propName \in DOMAIN obj /\ obj[propName]

setIfUndefined_Always(obj, propName, propValue) ==
    [n \in DOMAIN obj \cup {propName} |->
        IF n = propName THEN propValue ELSE obj[n]]

setIfUndefined(obj, propName, propValue) ==
    IF propName \in DOMAIN obj
    THEN obj
    ELSE [n \in DOMAIN obj \cup {propName} |->
            IF n = propName THEN propValue ELSE obj[n]]

\* the switch of createLogic on process.length: the processOptions it
\* leaves, from the ones the unit's author gave
dispatchModes(arity, processOptions) ==
    CASE arity \in {0, 1} -> setIfUndefined(processOptions, "dispatchReturn", TRUE)
      [] arity = 2 -> processOptions
      [] OTHER -> setIfUndefined(processOptions, "dispatchMultiple", TRUE)

\* the values createLogic gives the options the unit leaves out
defaultOptions == [warnTimeout |-> 60000, latest |-> FALSE, debounce |-> 0,
                   throttle |-> 0]

createLogic(type, cancelType, latest, debounce, throttle, validate, process) ==
    [ type |-> type,
      cancelType |-> cancelType,
      latest |-> latest,
      debounce |-> debounce,
      throttle |-> throttle,
      validate |-> validate,
      process |-> process,
      warnTimeout |-> defaultOptions.warnTimeout,
      processOptions |->
        [ dispatchReturn |->
            IsSet(dispatchModes(process.arity, NoOptions), "dispatchReturn"),
          dispatchMultiple |->
            IsSet(dispatchModes(process.arity, NoOptions), "dispatchMultiple"),
          successType |-> NoPattern,
          failType |-> NoPattern ] ]

\* processOptions.failType as the unit's author sets it: a type string
\* (Str) or an action creator (Fn) that returns an action or nothing
Fn(returns) == [kind |-> "fn", returns |-> returns]

withFailType(logic, failType) ==
    [logic EXCEPT !.processOptions.failType = failType]

\* the top level option warnTimeout as the unit's author sets it, in ms
withWarnTimeout(logic, ms) == [logic EXCEPT !.warnTimeout = ms]

AllDecisions ==
    { Decision(sp, a, u) : sp \in BOOLEAN,
                           a \in {"undefined", "same", "other"},
                           u \in {"auto", "true", "false"} }

ReturnProcess == Process(1, {"undefined", "plain", "promise", "throw"}, {})
SingleProcess == Process(2, {"undefined"}, {"undefined", "plain", "promise"})
MultiProcess  == Process(3, {"undefined", "throw", "doneThrow"},
                         {"plain", "promise", "error"})
QuietProcess  == Process(1, {"undefined"}, {})
FailingProcess == Process(3, {"undefined"}, {"error"})

\* the unit objects the application has created; a unit is known by its
\* place in this list, as the code knows it by reference
Logics ==
    << \* 1: takeLatest, multi-dispatch
       createLogic(Str("A"), NoPattern, TRUE, 0, 0,
                   identityValidation, MultiProcess),
       \* 2: cancelType, a validate hook of its own, dispatchReturn
       createLogic(Str("A"), Str("C"), FALSE, 0, 0,
                   Validate(AllDecisions), ReturnProcess),
       \* 3: debounce
       createLogic(Str("A"), NoPattern, FALSE, 40, 0,
                   identityValidation, ReturnProcess),
       \* 4: throttle, single-dispatch
       createLogic(Str("A"), NoPattern, FALSE, 0, 40,
                   identityValidation, SingleProcess),
       \* 5: every action
       createLogic(Str("*"), NoPattern, FALSE, 0, 0,
                   identityValidation, QuietProcess),
       \* 6: a list of types, cancelType and takeLatest
       createLogic(Arr(<<Str("A"), Str("B")>>), Str("C"), TRUE, 0, 0,
                   Validate({Decision(TRUE, "same", "auto"),
                             Decision(TRUE, "other", "auto"),
                             Decision(FALSE, "undefined", "auto")}),
                   Process(1, {"plain"}, {})),
       \* 7: a validate hook that transforms, filters or re-dispatches
       createLogic(Str("A"), NoPattern, FALSE, 0, 0,
                   Validate({Decision(TRUE, "changed", "auto"),
                             Decision(TRUE, "other", "auto"),
                             Decision(TRUE, "other", "false"),
                             Decision(FALSE, "same", "auto"),
                             Decision(FALSE, "undefined", "auto")}),
                   QuietProcess),
       \* 8: failType is a type string, no warning timer
       withWarnTimeout(
           withFailType(createLogic(Str("A"), NoPattern, FALSE, 0, 0,
                                    identityValidation,
                                    Process(3, {"undefined"}, {"error", "throwObject"})),
                        Str("FAIL")),
           0),
       \* 9: failType is an action creator
       withFailType(createLogic(Str("A"), NoPattern, FALSE, 0, 0,
                                identityValidation, FailingProcess),
                    Fn("action")),
       \* 10: failType is an action creator that returns nothing
       withFailType(createLogic(Str("C"), NoPattern, FALSE, 0, 0,
                                identityValidation, FailingProcess),
                    Fn("nothing")),
       \* 11: no failType, every kind of error value
       createLogic(Str("A"), NoPattern, FALSE, 0, 0, identityValidation,
                   Process(3, {"undefined"},
                           {"error", "typedError", "throwObject", "throwPrimitive"})),
       \* 12: takeLatest, a validate hook of its own, a promise returned
       createLogic(Str("A"), NoPattern, TRUE, 0, 0,
                   Validate({Decision(TRUE, "same", "auto"),
                             Decision(TRUE, "undefined", "auto")}),
                   Process(1, {"promise"}, {})) >>

\* the arrays of units the middleware is created with
LatestMulti == << 1 >>
CancelReturn == << 2 >>
DebounceReturn == << 3 >>
ThrottleSingle == << 4 >>
Chain == << 5, 6 >>
Ordered == << 7, 5 >>
FailString == << 8 >>
FailCreator == << 9, 10 >>
FailPlain == << 11 >>
LatestValidate == << 12 >>

\* the stores the middleware is applied to: one whose dispatch accepts
\* every action, and one whose dispatch throws on the values and on the
\* generic error actions that process hooks dispatch
Stores == { {}, {"V", UNHANDLED_LOGIC_ERROR} }

Configs == {LatestMulti, CancelReturn, DebounceReturn, ThrottleSingle, Chain,
            Ordered, FailString, FailCreator, FailPlain}

\* those and the ones only some applications use
AllConfigs == Configs \cup {LatestValidate}

\* ------------------------------------------------------------------------
\* State
\* ------------------------------------------------------------------------
VARIABLES
    savedLogicArr,  \* the registered units, in pipeline order
    insts,          \* the lifecycle instances, in order of creation
    monitor,        \* per incoming action: the events published on monitor$
                    \* about it and about its instances, in order
    pending,        \* lastPending$: the pending counter of the scan
    storeLog,       \* per incoming action: the calls of store.dispatch its
                    \* instances made, in order
    nextLog,        \* per incoming action: the calls of next made for it
    debHeld,        \* per unit: the action debounceTime holds back
    throttled,      \* per unit: throttleTime's window is open
    throwsOn,       \* the types of the actions store.dispatch throws on
    nEntry,         \* number of calls of the entry point so far
    entryResult,    \* what each call of the entry point returned
    waiters,        \* the promises whenComplete has returned
    logicSub,       \* the subscription of actionOut$ in force: the n-th made
    logicCount,     \* the counter the units are named from
    deps,           \* the dependencies handed to the hooks, per key
    lastCall,       \* the last call of the programming interface and how it
                    \* went
    NODE_ENV,       \* process.env.NODE_ENV, read when the modules are loaded
    nextThrowsOn    \* the types of the actions next throws on

vars == << savedLogicArr, throwsOn, insts, monitor, pending, storeLog, nextLog,
           debHeld, throttled, nEntry, entryResult, waiters, logicSub,
           logicCount, deps, lastCall, NODE_ENV, nextThrowsOn >>

\* what the steps of the pipeline leave alone
apiVars == << logicCount, deps, lastCall, NODE_ENV, nextThrowsOn >>

\* the part of the state one synchronous run reads and writes
Cur == [ insts |-> insts, monitor |-> monitor, pending |-> pending,
         storeLog |-> storeLog, nextLog |-> nextLog,
         debHeld |-> debHeld, throttled |-> throttled, waiters |-> waiters ]

Commit(S) ==
    /\ insts' = S.insts
    /\ monitor' = S.monitor
    /\ pending' = S.pending
    /\ storeLog' = S.storeLog
    /\ nextLog' = S.nextLog
    /\ debHeld' = S.debHeld
    /\ throttled' = S.throttled
    /\ waiters' = S.waiters

NumLogic == Len(savedLogicArr)

\* ------------------------------------------------------------------------
\* createLogicMiddleware: monitor$ and the pending counter
\* ------------------------------------------------------------------------
Increments == {"top", "begin"}
Decrements == {"end", "bottom", "nextDisp", "filtered", "dispatchError", "cancelled"}

\* the accumulator of monitor$.scan
scan(acc, op) ==
    IF op \in Increments THEN acc + 1
    ELSE IF op \in Decrements THEN acc - 1
    ELSE acc

\* mutant: whenComplete waits only while the counter is positive
takeWhilePending_Positive(p) == p > 0

\* whenComplete: takeWhile(x => x.pending), where lastPending$ starts with
\* a value without pending
takeWhilePending(p) == p # 0

\* the promise of whenComplete(fn) resolves with what fn returns for
\* undefined
Resolution == [callback |-> "fn", arg |-> Undefined]

\* lastPending$ emits the counter: the subscriptions of whenComplete that
\* takeWhile ends complete, and their promises resolve.  A waiter keeps
\* what the counter was when whenComplete was called and whether the
\* counter has been 0 since
lastPendingNext(ws, p) ==
    [n \in 1..Len(ws) |->
        [ resolved |-> IF ws[n].open /\ ~takeWhilePending(p)
                       THEN Append(ws[n].resolved, Resolution) ELSE ws[n].resolved,
          open |-> ws[n].open /\ takeWhilePending(p),
          calledAt |-> ws[n].calledAt,
          sawZero |-> ws[n].sawZero \/ p = 0 ]]

\* monitor$.next(ev): the event is published and the scan feeds lastPending$
monitorNext(S, ev) ==
    [S EXCEPT !.monitor[ev.aid] = Append(@, ev),
              !.pending = scan(@, ev.op),
              !.waiters = lastPendingNext(@, scan(S.pending, ev.op))]

\* an event about the aid-th incoming action: its op, the instance that
\* published it (0: none) and the action it carries
Event(op, aid, i, act) == [op |-> op, aid |-> aid, inst |-> i, act |-> act]

\* the incoming action instance i belongs to
Aid(S, i) == S.insts[i].action.id

\* ------------------------------------------------------------------------
\* createLogicAction$: the dispatch queue of one instance
\* ------------------------------------------------------------------------
\* the value the c-th dispatch() call of instance i carries
PlainVal(i, c) == [type |-> "V", id |-> i, x |-> c]
ErrVal(i, c) == [isError |-> TRUE, id |-> i, x |-> c]
\* an Error that carries a type field; a plain object that is no Error
\* and has no type field; a value that is neither (a string, a number)
TypedErrVal(i, c) == [isError |-> TRUE, type |-> "E", id |-> i, x |-> c]
ObjVal(i, c) == [isObject |-> TRUE, id |-> i, x |-> c]
PrimVal(i, c) == [isPrimitive |-> TRUE, id |-> i, x |-> c]

wrapActionForIntercept(act) ==
    IF ~Truthy(act) THEN act ELSE [interceptAction |-> act]

isInterceptAction(act) == Truthy(act) /\ "interceptAction" \in DOMAIN act

unwrapInterceptAction(act) == act.interceptAction

mapToAction(type, payload, err) ==
    IF type.kind = "fn"
    THEN IF type.returns = "nothing" THEN Undefined
         ELSE [type |-> "CREATED", payload |-> payload]
    ELSE IF err THEN [type |-> type.s, payload |-> payload, error |-> TRUE]
    ELSE [type |-> type.s, payload |-> payload]

\* the type of an action; values without a type field have none
TypeOf(act) == IF "type" \in DOMAIN act THEN act.type ELSE "none"

\* store.dispatch(act) of instance i, for the value of its c-th dispatch() call
storeDispatch(S, i, act, c) ==
    LET S1 == monitorNext(S, Event("dispatch", Aid(S, i), i, act))
    IN  [S1 EXCEPT !.storeLog[Aid(S, i)] =
            Append(@, [inst |-> i, act |-> act, call |-> c, begun |-> Len(S.insts),
                       threw |-> TypeOf(act) \in throwsOn, sub |-> logicSub])]

\* the run from S0 to S1 called store.dispatch for instance i and the call
\* threw
storeThrew(S0, S1, i) ==
    /\ Len(S1.storeLog[Aid(S0, i)]) > Len(S0.storeLog[Aid(S0, i)])
    /\ S1.storeLog[Aid(S0, i)][Len(S1.storeLog[Aid(S0, i)])].threw

mapToActionAndDispatch(S, i, actionOrValue, c) ==
    LET successType == Logics[S.insts[i].logic].processOptions.successType
        act == IF isInterceptAction(actionOrValue)
                 THEN unwrapInterceptAction(actionOrValue)
               ELSE IF successType.kind # "none"
                 THEN mapToAction(successType, actionOrValue, FALSE)
               ELSE actionOrValue
    IN  IF Truthy(act) THEN storeDispatch(S, i, act, c) ELSE S

\* mutant: every error value is wrapped into the generic error action
mapErrorToActionAndDispatch_AlwaysWraps(S, i, actionOrValue, c) ==
    storeDispatch(S, i, [type |-> UNHANDLED_LOGIC_ERROR, payload |-> actionOrValue,
                         error |-> TRUE], c)

mapErrorToActionAndDispatch(S, i, actionOrValue, c) ==
    LET failType == Logics[S.insts[i].logic].processOptions.failType
        wrapped == [type |-> UNHANDLED_LOGIC_ERROR, payload |-> actionOrValue,
                    error |-> TRUE]
    IN  IF isInterceptAction(actionOrValue)
          THEN storeDispatch(S, i, unwrapInterceptAction(actionOrValue), c)
        ELSE IF failType.kind # "none"
          THEN IF Truthy(mapToAction(failType, actionOrValue, TRUE))
               THEN storeDispatch(S, i, mapToAction(failType, actionOrValue, TRUE), c)
               ELSE S
        ELSE IF "isError" \in DOMAIN actionOrValue
          THEN storeDispatch(S, i,
                 IF "type" \in DOMAIN actionOrValue THEN actionOrValue ELSE wrapped, c)
        ELSE IF "isObject" \in DOMAIN actionOrValue
          THEN storeDispatch(S, i, actionOrValue, c)
        ELSE storeDispatch(S, i, wrapped, c)

\* the subscriber of dispatch$ is told complete or error: the instance ends
\* and cancelled$ is completed and unsubscribed
dispatchEnd(S, i) ==
    LET S1 == monitorNext(S, Event("end", Aid(S, i), i, S.insts[i].action))
    IN  [S1 EXCEPT !.insts[i].dispAlive = FALSE,
                   !.insts[i].inner = {},
                   !.insts[i].cancelledAlive = FALSE]

\* mergeAll: the source has completed and no inner stream is open
mergeAllCheckComplete(S, i) ==
    IF S.insts[i].dispAlive /\ S.insts[i].srcStopped /\ S.insts[i].inner = {}
    THEN dispatchEnd(S, i) ELSE S

\* an inner stream of dispatch$ emits a value / fails
\* what store.dispatch throws inside the do() callback goes to the error
\* handler of the subscriber of dispatch$
doOnNext(S0, S1, i) == IF storeThrew(S0, S1, i) THEN dispatchEnd(S1, i) ELSE S1

dispatchValue(S, i, v, c) == doOnNext(S, mapToActionAndDispatch(S, i, v, c), i)

\* mutant: the error is dispatched and dispatch$ goes on
dispatchError_GoesOn(S, i, e, c) == mapErrorToActionAndDispatch(S, i, e, c)

dispatchError(S, i, e, c) == dispatchEnd(mapErrorToActionAndDispatch(S, i, e, c), i)

\* dispatch$.complete()
dispatchComplete(S, i) ==
    mergeAllCheckComplete([S EXCEPT !.insts[i].srcStopped = TRUE], i)

\* mutant: a plain value is wrapped like a promise, to be delivered later
toObservable_AllDeferred(item) ==
    IF "obs" \in DOMAIN item THEN item.obs
    ELSE IF item.kind \in {"error", "typedError"} THEN [kind |-> "throw", v |-> item.v]
    ELSE [kind |-> "fromPromise"]

\* the stream dispatch() makes of its argument
toObservable(item) ==
    IF "obs" \in DOMAIN item THEN item.obs
    ELSE IF item.kind = "promise" THEN [kind |-> "fromPromise"]
    ELSE IF item.kind \in {"error", "typedError"} THEN [kind |-> "throw", v |-> item.v]
    ELSE [kind |-> "of", v |-> item.v]

\* mutant: dispatch$ without takeUntil(cancel$)
dispatchNext_NoTakeUntil(S, i, obs, c) ==
    IF S.insts[i].srcStopped THEN S
    ELSE IF obs.kind = "of" THEN dispatchValue(S, i, obs.v, c)
    ELSE IF obs.kind = "throw" THEN dispatchError(S, i, obs.v, c)
    ELSE [S EXCEPT !.insts[i].inner = @ \cup {c}]

\* dispatch$.next(obs): ignored once the source subject has completed,
\* lost once the subscription of dispatch$ is gone
dispatchNext(S, i, obs, c) ==
    IF S.insts[i].srcStopped \/ ~S.insts[i].dispAlive THEN S
    ELSE IF obs.kind = "of" THEN dispatchValue(S, i, obs.v, c)
    ELSE IF obs.kind = "throw" THEN dispatchError(S, i, obs.v, c)
    ELSE [S EXCEPT !.insts[i].inner = @ \cup {c}]

\* mutant: every dispatch() call completes dispatch$
dispatch_AutoComplete(S, i, item, allowMore) ==
    LET c  == Len(S.insts[i].calls) + 1
        S0 == [S EXCEPT !.insts[i].calls =
                            Append(@, [kind |-> item.kind,
                                       live |-> S.insts[i].dispAlive
                                                /\ ~S.insts[i].srcStopped]),
                        !.insts[i].promises =
                            IF item.kind = "promise" THEN @ \cup {c} ELSE @]
        S1 == IF item.kind # "undefined"
              THEN dispatchNext(S0, i, toObservable(item), c) ELSE S0
    IN  IF ~allowMore THEN dispatchComplete(S1, i) ELSE S1

\* mutant: dispatch() never completes dispatch$
completeUnless_LeavesOpen(S, i, more) == S

\* dispatch$.complete() unless more values may follow
completeUnless(S, i, more) == IF more THEN S ELSE dispatchComplete(S, i)

\* dispatch(act, options) of instance i
dispatch(S, i, item, allowMore) ==
    LET c  == Len(S.insts[i].calls) + 1
        S0 == [S EXCEPT !.insts[i].calls =
                            Append(@, [kind |-> item.kind,
                                       live |-> S.insts[i].dispAlive
                                                /\ ~S.insts[i].srcStopped]),
                        !.insts[i].promises =
                            IF item.kind = "promise" THEN @ \cup {c} ELSE @]
    IN  completeUnless(
            IF item.kind # "undefined"
            THEN dispatchNext(S0, i, toObservable(item), c) ELSE S0,
            i, Logics[S.insts[i].logic].processOptions.dispatchMultiple \/ allowMore)

\* done()
done(S, i) == dispatchComplete(S, i)

\* ------------------------------------------------------------------------
\* logicWrapper and createLogicAction$: one unit of the pipeline
\* ------------------------------------------------------------------------
\* mutant: latest does not add the unit's own type
cancelTypes_NoLatest(logic) == ConcatPattern(<< >>, logic.cancelType)

\* the patterns whose actions cancel the instances of a unit
cancelTypes(logic) ==
    ConcatPattern(
        ConcatPattern(<< >>, IF logic.type.kind # "none" /\ logic.latest
                             THEN logic.type ELSE NoPattern),
        logic.cancelType)

\* mutant: the unit's own type cancels also without latest
cancelMatches_OwnTypeAlways(logic, type) ==
    matchesType(logic.type, type)
    \/ (Len(cancelTypes(logic)) > 0 /\ matchesType(Arr(cancelTypes(logic)), type))

\* cancel$ lets the action through
cancelMatches(logic, type) ==
    Len(cancelTypes(logic)) > 0 /\ matchesType(Arr(cancelTypes(logic)), type)

\* mutant: the event is cancelled whether interception had completed or not
cancelInstance_AlwaysCancelled(S, i) ==
    LET S1 == [S EXCEPT !.insts[i].outerAlive = FALSE]
        S2 == IF S1.insts[i].cancelledAlive
              THEN [monitorNext(S1, Event("cancelled", Aid(S, i), i, S1.insts[i].action))
                      EXCEPT !.insts[i].cancelledAlive = FALSE]
              ELSE S1
    IN  IF S2.insts[i].dispAlive THEN dispatchEnd(S2, i) ELSE S2

\* mutant: cancelled$ and dispatch$ hear cancel$ also after they are over
cancelInstance_Unguarded(S, i) ==
    dispatchEnd(
        [monitorNext([S EXCEPT !.insts[i].outerAlive = FALSE],
                     Event(IF S.insts[i].interceptComplete
                           THEN "dispCancelled" ELSE "cancelled",
                           Aid(S, i), i, S.insts[i].action))
           EXCEPT !.insts[i].cancelledAlive = FALSE], i)

\* an action of cancel$ reaches the three subscriptions of instance i, in
\* the order they were made: takeUntil of logicAction$, cancelled$, and
\* takeUntil of dispatch$
cancelInstance(S, i) ==
    LET S1 == [S EXCEPT !.insts[i].outerAlive = FALSE]
        S2 == IF S1.insts[i].cancelledAlive
              THEN [monitorNext(S1, Event(IF S1.insts[i].interceptComplete
                                          THEN "dispCancelled" ELSE "cancelled",
                                          Aid(S, i), i, S1.insts[i].action))
                      EXCEPT !.insts[i].cancelledAlive = FALSE]
              ELSE S1
    IN  IF S2.insts[i].dispAlive THEN dispatchEnd(S2, i) ELSE S2

RECURSIVE cancelAll(_, _, _, _)
\* the instances of unit k among 1..n, oldest first
cancelAll(S, k, i, n) ==
    IF i > n THEN S
    ELSE cancelAll(IF S.insts[i].unit = k /\ S.insts[i].sub = logicSub
                   THEN cancelInstance(S, i) ELSE S,
                   k, i + 1, n)

RECURSIVE cancelEarlier(_, _, _, _)
\* the instances among 1..n created under an earlier subscription: their
\* cancel$ subscriptions were made before the subscriptions of the present
\* composition, and hear the action first
cancelEarlier(S, type, i, n) ==
    IF i > n THEN S
    ELSE cancelEarlier(IF /\ S.insts[i].sub < logicSub
                          /\ cancelMatches(Logics[S.insts[i].logic], type)
                       THEN cancelInstance(S, i) ELSE S,
                       type, i + 1, n)

\* mutant: under 'auto' every action that is present goes to the store
shouldDispatch_AutoAlways(act, useDispatch, action) ==
    IF ~Truthy(act) THEN FALSE
    ELSE IF useDispatch = "auto" THEN TRUE
    ELSE useDispatch = "true"

shouldDispatch(act, useDispatch, action) ==
    IF ~Truthy(act) THEN FALSE
    ELSE IF useDispatch = "auto" THEN act.type # action.type
    ELSE useDispatch = "true"

\* next(action) in the subscriber of actionOut$: the call is made, and an
\* exception it throws is caught and published as a nextError event
nextOrError(S, action) ==
    IF action.type \in nextThrowsOn
    THEN monitorNext(S, Event("nextError", action.id, 0, action))
    ELSE S

\* mutant: the exception of next leaves the subscriber before the bottom
\* event
actionOut_ThrowSkipsBottom(S, action) ==
    IF action.type \in nextThrowsOn
    THEN nextOrError([S EXCEPT !.nextLog[action.id] = Append(@, action)], action)
    ELSE monitorNext([S EXCEPT !.nextLog[action.id] = Append(@, action)],
                     Event("bottom", action.id, 0, action))

\* the subscriber of actionOut$ in applyLogic
actionOut(S, action) ==
    monitorNext(nextOrError([S EXCEPT !.nextLog[action.id] = Append(@, action)],
                            action),
                Event("bottom", action.id, 0, action))

NoDecision == Decision(FALSE, "none", "none")

NewInstance(k, logic, action) ==
    [ unit |-> k, logic |-> logic, action |-> action,
      sub |-> logicSub,          \* the subscription it was created under
      interceptComplete |-> FALSE,
      outerAlive |-> TRUE,       \* logicAction$ still has its subscriber
      cancelledAlive |-> TRUE,   \* cancelled$ has neither fired nor completed
      dispAlive |-> TRUE,        \* dispatch$ still has its subscriber
      srcStopped |-> FALSE,      \* dispatch$.complete() was called
      inner |-> {},              \* the promises dispatch$ is subscribed to
      promises |-> {},           \* the promises dispatched and not yet settled
      calls |-> << >>,           \* the dispatch() calls made so far: the kind of
                                 \* value, and whether dispatch$ was still open
      resolved |-> {},           \* the promises that have resolved
      rejected |-> {},           \* the promises that have rejected
      decided |-> FALSE,         \* the intercept hook has called allow or reject
      decision |-> NoDecision,   \* ... and with what
      processed |-> 0,           \* number of invocations of the process hook
      returned |-> << >>,        \* what each invocation did
      doneCalled |-> FALSE,      \* the process hook has called done()
      warned |-> FALSE ]         \* the warning timer has fired and logged

\* what a process hook may hand to dispatch(): nothing, an action, a
\* promise, an Error without or with a type field, or a stream that fails
\* with an object or with a primitive value
ItemKinds == {"undefined", "plain", "promise", "error", "typedError",
              "throwObject", "throwPrimitive"}

\* the dispatch() calls that put a failing stream into dispatch$
ErrorKinds == {"error", "typedError", "throwObject", "throwPrimitive", "observable"}

\* the item a dispatch() call hands over, by kind
Item(kind, i, c) ==
    IF kind = "plain" THEN [kind |-> kind, v |-> PlainVal(i, c)]
    ELSE IF kind = "error" THEN [kind |-> kind, v |-> ErrVal(i, c)]
    ELSE IF kind = "typedError" THEN [kind |-> kind, v |-> TypedErrVal(i, c)]
    ELSE IF kind = "throwObject"
         THEN [kind |-> kind, obs |-> [kind |-> "throw", v |-> ObjVal(i, c)]]
    ELSE IF kind = "throwPrimitive"
         THEN [kind |-> kind, obs |-> [kind |-> "throw", v |-> PrimVal(i, c)]]
    ELSE [kind |-> kind]

ThrowObservable(i, c) ==
    [kind |-> "observable", obs |-> [kind |-> "throw", v |-> ErrVal(i, c)]]

\* the action the intercept hook hands to allow or reject
NewAction(kind, action) ==
    IF kind = "undefined" THEN Undefined
    ELSE IF kind = "same" THEN action
    ELSE IF kind = "changed" THEN [action EXCEPT !.x = 1]
    ELSE [action EXCEPT !.type = IF action.type = "B" THEN "A" ELSE "B"]

RECURSIVE wrappedLogic(_, _, _, _)
RECURSIVE limiting(_, _, _, _)
RECURSIVE throttling(_, _, _, _)
RECURSIVE createLogicAction(_, _, _, _)
RECURSIVE handleNextOrDispatch(_, _, _, _, _, _)
RECURSIVE postIfDefinedOrComplete(_, _, _, _)

\* mutant: without an action to forward, the original action goes on
postIfDefinedOrComplete_ForwardsOriginal(S, i, act, pbs) ==
    LET S1 == IF S.insts[i].outerAlive
              THEN wrappedLogic(S, S.insts[i].unit + 1,
                                IF Truthy(act) THEN act ELSE S.insts[i].action, pbs)
              ELSE S
    IN  [S1 EXCEPT !.insts[i].interceptComplete = TRUE,
                   !.insts[i].outerAlive = FALSE]

\* logicActionObs.next(act) and complete(): the action goes on to the next
\* unit while logicAction$ still has its subscriber
postIfDefinedOrComplete(S, i, act, pbs) ==
    LET S1 == IF Truthy(act) /\ S.insts[i].outerAlive
              THEN wrappedLogic(S, S.insts[i].unit + 1, act, pbs) ELSE S
    IN  [S1 EXCEPT !.insts[i].interceptComplete = TRUE,
                   !.insts[i].outerAlive = FALSE]

\* mutant: what the process hook returns is never dispatched
invokeProcess_DropReturn(S, i, pb) ==
    LET S1 == [S EXCEPT !.insts[i].processed = @ + 1,
                        !.insts[i].returned = Append(@, pb)]
        c  == Len(S.insts[i].calls) + 1
    IN  IF pb = "throw" THEN dispatch(S1, i, ThrowObservable(i, c), FALSE)
        ELSE IF pb = "doneThrow"
             THEN dispatch(done([S1 EXCEPT !.insts[i].doneCalled = TRUE], i),
                           i, ThrowObservable(i, c), FALSE)
        ELSE IF Logics[S.insts[i].logic].processOptions.dispatchReturn
             THEN dispatchComplete(S1, i)
        ELSE S1

\* mutant: what the process hook throws is caught and dropped
invokeProcess_SwallowThrow(S, i, pb) ==
    LET S1 == [S EXCEPT !.insts[i].processed = @ + 1,
                        !.insts[i].returned = Append(@, pb),
                        !.insts[i].calls =
                            IF pb \in {"throw", "doneThrow"}
                            THEN Append(@, [kind |-> "observable",
                                            live |-> S.insts[i].dispAlive
                                                     /\ ~S.insts[i].srcStopped])
                            ELSE @]
        c  == Len(S.insts[i].calls) + 1
    IN  IF pb = "throw" THEN S1
        ELSE IF pb = "doneThrow"
             THEN done([S1 EXCEPT !.insts[i].doneCalled = TRUE], i)
        ELSE IF Logics[S.insts[i].logic].processOptions.dispatchReturn
             THEN IF pb = "undefined" THEN dispatchComplete(S1, i)
                  ELSE dispatch(S1, i, Item(pb, i, c), FALSE)
        ELSE S1

\* the process hook is invoked and does what pb says: it returns undefined,
\* a plain value or a promise, or it throws, at once or after calling done()
invokeProcess(S, i, pb) ==
    LET S1 == [S EXCEPT !.insts[i].processed = @ + 1,
                        !.insts[i].returned = Append(@, pb)]
        c  == Len(S.insts[i].calls) + 1
        throws == pb \in {"throw", "doneThrow"}
        dispatchReturn == Logics[S.insts[i].logic].processOptions.dispatchReturn
    IN  IF throws \/ (dispatchReturn /\ pb # "undefined")
        THEN dispatch(IF pb = "doneThrow"
                      THEN done([S1 EXCEPT !.insts[i].doneCalled = TRUE], i)
                      ELSE S1,
                      i,
                      IF throws THEN ThrowObservable(i, c) ELSE Item(pb, i, c),
                      FALSE)
        ELSE completeUnless(S1, i, ~dispatchReturn)

\* mutant: after reject, dispatch$ is left open
handleNextOrDispatch_RejectLeavesOpen(S, i, shouldProcess, act, useDispatch, pbs) ==
    LET action == S.insts[i].action
        S1 == IF shouldDispatch(act, useDispatch, action)
              THEN [ dispatch(
                       [monitorNext(S, Event("nextDisp", action.id, i, act))
                          EXCEPT !.insts[i].interceptComplete = TRUE],
                       i, [kind |-> "intercept", v |-> wrapActionForIntercept(act)], TRUE)
                     EXCEPT !.insts[i].outerAlive = FALSE ]
              ELSE IF Truthy(act)
              THEN postIfDefinedOrComplete(
                       monitorNext(S, Event("next", action.id, i, act)), i, act, pbs)
              ELSE postIfDefinedOrComplete(
                       [monitorNext(S, Event("filtered", action.id, i, action))
                          EXCEPT !.insts[i].interceptComplete = TRUE], i, act, pbs)
    IN  IF shouldProcess THEN invokeProcess(S1, i, pbs[S.insts[i].logic])
        ELSE S1

\* after the decision: the process hook is invoked, or dispatch$ completes
processOrComplete(S, i, shouldProcess, pb) ==
    IF shouldProcess THEN invokeProcess(S, i, pb) ELSE dispatchComplete(S, i)

handleNextOrDispatch(S, i, shouldProcess, act, useDispatch, pbs) ==
    LET action == S.insts[i].action
        op == IF shouldDispatch(act, useDispatch, action) THEN "nextDisp"
              ELSE IF Truthy(act) THEN "next" ELSE "filtered"
        S0 == [monitorNext(S, Event(op, action.id, i,
                                    IF op = "filtered" THEN action ELSE act))
                 EXCEPT !.insts[i].interceptComplete = @ \/ op # "next"]
    IN  processOrComplete(
            IF op = "nextDisp"
            THEN [ dispatch(S0, i,
                            [kind |-> "intercept", v |-> wrapActionForIntercept(act)],
                            TRUE)
                   EXCEPT !.insts[i].outerAlive = FALSE ]
            ELSE postIfDefinedOrComplete(S0, i, act, pbs),
            i, shouldProcess, pbs[S.insts[i].logic])

\* mutant: allow does not run the process hook
allow_AsReject(S, i, act, useDispatch, pbs) ==
    handleNextOrDispatch(S, i, FALSE, act, useDispatch, pbs)

allow(S, i, act, useDispatch, pbs) ==
    handleNextOrDispatch(S, i, TRUE, act, useDispatch, pbs)

\* mutant: reject runs the process hook
reject_AsAllow(S, i, act, useDispatch, pbs) ==
    handleNextOrDispatch(S, i, TRUE, act, useDispatch, pbs)

reject(S, i, act, useDispatch, pbs) ==
    handleNextOrDispatch(S, i, FALSE, act, useDispatch, pbs)

\* start(): the intercept hook is invoked; the identity hook calls
\* allow(action) at once, a hook of the author calls back later
start(S, i, pbs) ==
    IF Logics[S.insts[i].logic].validate.sync
    THEN allow([S EXCEPT !.insts[i].decided = TRUE,
                         !.insts[i].decision = Decision(TRUE, "same", "auto")],
               i, S.insts[i].action, "auto", pbs)
    ELSE S

createLogicAction(S, k, action, pbs) ==
    LET i  == Len(S.insts) + 1
        S1 == monitorNext(S, Event("begin", action.id, i, action))
        S2 == [S1 EXCEPT !.insts = Append(@, NewInstance(k, savedLogicArr[k], action))]
    IN  start(S2, i, pbs)

\* mutant: the window opens but nothing is dropped
throttling_DropsNothing(S, k, action, pbs) ==
    createLogicAction(
        [S EXCEPT !.throttled[k] = @ \/ Logics[savedLogicArr[k]].throttle > 0],
        k, action, pbs)

\* throttleTime: the first action opens the window, the others are dropped
throttling(S, k, action, pbs) ==
    IF Logics[savedLogicArr[k]].throttle > 0 /\ S.throttled[k] THEN S
    ELSE createLogicAction(
             [S EXCEPT !.throttled[k] = @ \/ Logics[savedLogicArr[k]].throttle > 0],
             k, action, pbs)

\* mutant: the action held back is kept, later ones of the burst are dropped
debouncing_KeepFirst(S, k, action) ==
    IF Truthy(S.debHeld[k]) THEN S ELSE [S EXCEPT !.debHeld[k] = action]

\* debounceTime: the action replaces the one held back and restarts the timer
debouncing(S, k, action) == [S EXCEPT !.debHeld[k] = action]

limiting(S, k, action, pbs) ==
    IF Logics[savedLogicArr[k]].debounce > 0
    THEN debouncing(S, k, action)
    ELSE throttling(S, k, action, pbs)

\* mutant: a unit lets through only what it matches
wrappedLogic_DropsNonMatching(S, k, action, pbs) ==
    IF k > NumLogic THEN actionOut(S, action)
    ELSE LET logic == Logics[savedLogicArr[k]]
             S1 == IF matchesType(logic.type, action.type)
                   THEN limiting(S, k, action, pbs)
                   ELSE S
         IN  IF cancelMatches(logic, action.type)
             THEN cancelAll(S1, k, 1, Len(S.insts))
             ELSE S1

\* the action reaches the input of unit k (or, past the last unit, the
\* subscriber of actionOut$): first the unit's own two branches, then the
\* cancel$ subscriptions of the instances that existed before
\* mutant: the cancel$ subscriptions made while the action is published
\* hear that action too
wrappedLogic_CancelsOwn(S, k, action, pbs) ==
    IF k > NumLogic THEN actionOut(S, action)
    ELSE LET S1 == IF matchesType(Logics[savedLogicArr[k]].type, action.type)
                   THEN limiting(S, k, action, pbs)
                   ELSE wrappedLogic(S, k + 1, action, pbs)
         IN  cancelAll(S1, k, 1,
                       IF cancelMatches(Logics[savedLogicArr[k]], action.type)
                       THEN Len(S1.insts) ELSE 0)

wrappedLogic(S, k, action, pbs) ==
    IF k > NumLogic THEN actionOut(S, action)
    ELSE cancelAll(IF matchesType(Logics[savedLogicArr[k]].type, action.type)
                   THEN limiting(S, k, action, pbs)
                   ELSE wrappedLogic(S, k + 1, action, pbs),
                   k, 1,
                   IF cancelMatches(Logics[savedLogicArr[k]], action.type)
                   THEN Len(S.insts) ELSE 0)

\* the keys of the dependencies, and the values injected
DepKeys == {"k1", "k2"}
DepValues == { [dep |-> 1], [dep |-> 2] }

\* ------------------------------------------------------------------------
\* The steps
\* ------------------------------------------------------------------------
Builds == {"development", "production"}

InitBuild(build, throwing) ==
    /\ NODE_ENV = build
    /\ nextThrowsOn = throwing
    /\ savedLogicArr \in AllConfigs
    /\ throwsOn \in Stores
    /\ insts = << >>
    /\ monitor = [n \in 1..MaxActions |-> << >>]
    /\ pending = 0
    /\ storeLog = [n \in 1..MaxActions |-> << >>]
    /\ nextLog = [n \in 1..MaxActions |-> << >>]
    /\ debHeld = [k \in 1..Len(savedLogicArr) |-> Undefined]
    /\ throttled = [k \in 1..Len(savedLogicArr) |-> FALSE]
    /\ nEntry = 0
    /\ entryResult = << >>
    /\ waiters = << >>
    /\ logicSub = 1
    /\ logicCount = Len(savedLogicArr)
    /\ deps = [k \in DepKeys |-> Undefined]
    /\ lastCall = [op |-> "none"]

\* a development build, where the warnings are compiled in
Init == InitBuild("development", {}) /\ savedLogicArr \in Configs

Behaviours == {"undefined", "plain", "promise", "throw", "doneThrow"}

\* the calls of allow and reject the validate hooks of the units can make
Decisions == UNION { Logics[l].validate.decisions : l \in 1..Len(Logics) }

\* what the process hooks invoked in one run do, per unit object
ProcChoices ==
    LET registered == { savedLogicArr[k] : k \in 1..NumLogic }
                          \cup { insts[i].logic : i \in 1..Len(insts) }
    IN  { f \in [registered -> Behaviours] :
            \A l \in registered : f[l] \in Logics[l].process.behaviours }

\* the number of dispatch() calls the process hooks have made so far
RECURSIVE HookCalls(_)
HookCalls(n) ==
    IF n = 0 THEN 0
    ELSE HookCalls(n - 1)
         + Cardinality({ c \in 1..Len(insts[n].calls) :
                           insts[n].calls[c].kind \in ItemKinds
                           /\ Logics[insts[n].logic].process.arity >= 2 })

\* mutant: the entry point returns nothing
mw_ReturnsNothing(t, pbs) ==
    /\ nEntry < MaxActions
    /\ nEntry' = nEntry + 1
    /\ entryResult' = Append(entryResult, Undefined)
    /\ LET action == Action(t, nEntry + 1)
       IN  Commit(wrappedLogic(
                      cancelEarlier(monitorNext(Cur, Event("top", action.id, 0, action)),
                                    t, 1, Len(insts)),
                      1, action, pbs))
    /\ UNCHANGED << savedLogicArr, throwsOn, logicSub, apiVars >>

\* the entry point:
\* action => { monitor$.next(top); actionSrc$.next(action); return action }
mw(t, pbs) ==
    /\ nEntry < MaxActions
    /\ nEntry' = nEntry + 1
    /\ entryResult' = Append(entryResult, Action(t, nEntry + 1))
    /\ LET action == Action(t, nEntry + 1)
       IN  Commit(wrappedLogic(
                      cancelEarlier(monitorNext(Cur, Event("top", action.id, 0, action)),
                                    t, 1, Len(insts)),
                      1, action, pbs))
    /\ UNCHANGED << savedLogicArr, throwsOn, logicSub, apiVars >>

\* the intercept hook of instance i calls allow(act, {useDispatch})
Allow(i, d, pbs) ==
    /\ ~Logics[insts[i].logic].validate.sync
    /\ ~insts[i].decided
    /\ d \in Logics[insts[i].logic].validate.decisions
    /\ d.shouldProcess
    /\ Commit(allow([Cur EXCEPT !.insts[i].decided = TRUE,
                                 !.insts[i].decision = d], i,
                    NewAction(d.act, insts[i].action), d.useDispatch, pbs))
    /\ UNCHANGED << savedLogicArr, throwsOn, nEntry, entryResult, logicSub, apiVars >>

\* the intercept hook of instance i calls reject(act, {useDispatch})
Reject(i, d, pbs) ==
    /\ ~Logics[insts[i].logic].validate.sync
    /\ ~insts[i].decided
    /\ d \in Logics[insts[i].logic].validate.decisions
    /\ ~d.shouldProcess
    /\ Commit(reject([Cur EXCEPT !.insts[i].decided = TRUE,
                                  !.insts[i].decision = d], i,
                     NewAction(d.act, insts[i].action), d.useDispatch, pbs))
    /\ UNCHANGED << savedLogicArr, throwsOn, nEntry, entryResult, logicSub, apiVars >>

\* the process hook of instance i calls dispatch(item)
Dispatch(i, kind) ==
    /\ insts[i].processed > 0
    /\ Logics[insts[i].logic].process.arity >= 2
    /\ kind \in Logics[insts[i].logic].process.items
    /\ HookCalls(Len(insts)) < MaxDispatch
    /\ Commit(dispatch(Cur, i, Item(kind, i, Len(insts[i].calls) + 1), FALSE))
    /\ UNCHANGED << savedLogicArr, throwsOn, nEntry, entryResult, logicSub, apiVars >>

\* the process hook of instance i calls done()
Done(i) ==
    /\ insts[i].processed > 0
    /\ Logics[insts[i].logic].process.arity >= 3
    /\ ~insts[i].doneCalled
    /\ Commit(done([Cur EXCEPT !.insts[i].doneCalled = TRUE], i))
    /\ UNCHANGED << savedLogicArr, throwsOn, nEntry, entryResult, logicSub, apiVars >>

\* Observable.fromPromise: the promise of the c-th dispatch() call settles;
\* the inner subscriber hears of it only while it is still subscribed
promiseSettle(S, i, c, ok) ==
    LET S1 == [S EXCEPT !.insts[i].promises = @ \ {c},
                        !.insts[i].resolved = IF ok THEN @ \cup {c} ELSE @,
                        !.insts[i].rejected = IF ok THEN @ ELSE @ \cup {c}]
    IN  IF c \notin S.insts[i].inner THEN S1
        ELSE IF ok
        THEN mergeAllCheckComplete(
                 [dispatchValue(S1, i, PlainVal(i, c), c)
                    EXCEPT !.insts[i].inner = @ \ {c}], i)
        ELSE dispatchError(S1, i, ErrVal(i, c), c)

Resolve(i, c) ==
    /\ c \in insts[i].promises
    /\ Commit(promiseSettle(Cur, i, c, TRUE))
    /\ UNCHANGED << savedLogicArr, throwsOn, nEntry, entryResult, logicSub, apiVars >>

RejectPromise(i, c) ==
    /\ c \in insts[i].promises
    /\ Commit(promiseSettle(Cur, i, c, FALSE))
    /\ UNCHANGED << savedLogicArr, throwsOn, nEntry, entryResult, logicSub, apiVars >>

\* whenComplete(fn): a subscription of lastPending$, which first hears the
\* latest counter
whenComplete ==
    /\ Len(waiters) < MaxWaiters
    /\ waiters' = lastPendingNext(
                      Append(waiters, [resolved |-> << >>, open |-> TRUE,
                                       calledAt |-> pending, sawZero |-> FALSE]),
                      pending)
    /\ UNCHANGED << savedLogicArr, throwsOn, insts, monitor, pending, storeLog,
                    nextLog, debHeld, throttled, nEntry, entryResult, logicSub, apiVars >>

\* mutant: no duplicate is ever found
findDuplicates_FindsNone(arrLogic) == {}

\* the indexes of the units that occur more than once
findDuplicates(arrLogic) ==
    { idx1 \in 1..Len(arrLogic) :
        \E idx2 \in 1..Len(arrLogic) : idx1 # idx2 /\ arrLogic[idx1] = arrLogic[idx2] }

RECURSIVE cancelEvery(_, _, _)
cancelEvery(S, i, n) ==
    IF i > n THEN S ELSE cancelEvery(cancelInstance(S, i), i + 1, n)

\* mutant: the old subscription takes the running instances down with it
applyLogic_CancelsInFlight(S, chain) ==
    LET S1 == cancelEvery(S, 1, Len(S.insts))
    IN  [S1 EXCEPT !.insts = [i \in DOMAIN S1.insts |->
                                 [S1.insts[i] EXCEPT !.outerAlive = FALSE]],
                   !.debHeld = [k \in 1..Len(chain) |-> Undefined],
                   !.throttled = [k \in 1..Len(chain) |-> FALSE]]

\* applyLogic: sub.unsubscribe() takes away the subscriber of every
\* logicAction$ still open and the timers of the units; what an instance
\* subscribed to by itself (cancelled$, dispatch$) stays. Then the units of
\* chain are composed and subscribed to afresh.
applyLogic(S, chain) ==
    [S EXCEPT !.insts = [i \in DOMAIN S.insts |->
                            [S.insts[i] EXCEPT !.outerAlive = FALSE]],
              !.debHeld = [k \in 1..Len(chain) |-> Undefined],
              !.throttled = [k \in 1..Len(chain) |-> FALSE]]

\* the arrays of units the application hands to replaceLogic and addLogic
NewLogic == { << 5 >> }

\* no instance holds a subscription of its own any more
Quiescent == \A i \in 1..Len(insts) : ~insts[i].cancelledAlive /\ ~insts[i].dispAlive

\* the call op(arg) threw: nothing but the record of the call changes
Throws(op, arg) ==
    /\ lastCall' = [op |-> op, arg |-> arg, threw |-> TRUE, before |-> savedLogicArr]
    /\ UNCHANGED << savedLogicArr, throwsOn, insts, monitor, pending, storeLog,
                    nextLog, debHeld, throttled, nEntry, entryResult, waiters,
                    logicSub, logicCount, deps, NODE_ENV, nextThrowsOn >>

\* the call op(arg) returned { logicCount: cnt }
Returns(op, arg, cnt) ==
    lastCall' = [op |-> op, arg |-> arg, threw |-> FALSE, before |-> savedLogicArr,
                 result |-> cnt]

\* mutant: replaceLogic goes on counting where the units before stopped
replaceLogic_ContinuesCount(arrRepLogic) ==
    /\ logicSub < MaxSubs
    /\ NumLogic = 1 \/ Quiescent
    /\ IF findDuplicates(arrRepLogic) # {}
       THEN Throws("replaceLogic", arrRepLogic)
       ELSE /\ Commit(applyLogic(Cur, arrRepLogic))
            /\ savedLogicArr' = arrRepLogic
            /\ logicSub' = logicSub + 1
            /\ logicCount' = logicCount + Len(arrRepLogic)
            /\ Returns("replaceLogic", arrRepLogic, logicCount + Len(arrRepLogic))
            /\ UNCHANGED << throwsOn, nEntry, entryResult, deps, NODE_ENV, nextThrowsOn >>

\* mw.replaceLogic(arrRepLogic): the new units are composed on actionSrc$.
\* Called while one unit is registered or no instance is in flight.
replaceLogic(arrRepLogic) ==
    /\ logicSub < MaxSubs
    /\ NumLogic = 1 \/ Quiescent
    /\ IF findDuplicates(arrRepLogic) # {}
       THEN Throws("replaceLogic", arrRepLogic)
       ELSE /\ Commit(applyLogic(Cur, arrRepLogic))
            /\ savedLogicArr' = arrRepLogic
            /\ logicSub' = logicSub + 1
            /\ logicCount' = 0 + Len(arrRepLogic)
            /\ Returns("replaceLogic", arrRepLogic, 0 + Len(arrRepLogic))
            /\ UNCHANGED << throwsOn, nEntry, entryResult, deps, NODE_ENV, nextThrowsOn >>

\* the body of mw.addLogic(arrNewLogic), for the call op(arg): the new
\* units are composed on actionEnd$, the output of the units there are
addLogicFor(op, arg, arrNewLogic) ==
    IF Len(arrNewLogic) = 0
    THEN /\ Returns(op, arg, logicCount)
         /\ UNCHANGED << savedLogicArr, throwsOn, insts, monitor, pending, storeLog,
                         nextLog, debHeld, throttled, nEntry, entryResult, waiters,
                         logicSub, logicCount, deps, NODE_ENV, nextThrowsOn >>
    ELSE IF findDuplicates(savedLogicArr \o arrNewLogic) # {}
    THEN Throws(op, arg)
    ELSE /\ Commit(applyLogic(Cur, savedLogicArr \o arrNewLogic))
         /\ savedLogicArr' = savedLogicArr \o arrNewLogic
         /\ logicSub' = logicSub + 1
         /\ logicCount' = logicCount + Len(arrNewLogic)
         /\ Returns(op, arg, logicCount + Len(arrNewLogic))
         /\ UNCHANGED << throwsOn, nEntry, entryResult, deps, NODE_ENV, nextThrowsOn >>

\* mw.addLogic(arrNewLogic), called while one unit is registered or no
\* instance is in flight
addLogic(arrNewLogic) ==
    /\ logicSub < MaxSubs
    /\ NumLogic = 1 \/ Quiescent
    /\ addLogicFor("addLogic", arrNewLogic, arrNewLogic)

\* arrMergeLogic.filter(x => savedLogicArr.indexOf(x) === -1)
NotRegistered(arrMergeLogic) ==
    LET IsNew(x) == \A k \in 1..NumLogic : savedLogicArr[k] # x
    IN  SelectSeq(arrMergeLogic, IsNew)

\* mw.mergeNewLogic(arrMergeLogic)
mergeNewLogic(arrMergeLogic) ==
    /\ logicSub < MaxSubs
    /\ NumLogic = 1 \/ Quiescent
    /\ IF findDuplicates(arrMergeLogic) # {}
       THEN Throws("mergeNewLogic", arrMergeLogic)
       ELSE addLogicFor("mergeNewLogic", arrMergeLogic, NotRegistered(arrMergeLogic))

\* createLogicMiddleware(arrLogic) and its application to a store: when it
\* does not throw, the middleware it returns takes the place of the one
\* there was
createLogicMiddleware(arrLogic) ==
    IF findDuplicates(arrLogic) # {}
    THEN Throws("createLogicMiddleware", arrLogic)
    ELSE /\ savedLogicArr' = arrLogic
         /\ insts' = << >>
         /\ monitor' = [n \in 1..MaxActions |-> << >>]
         /\ pending' = 0
         /\ storeLog' = [n \in 1..MaxActions |-> << >>]
         /\ nextLog' = [n \in 1..MaxActions |-> << >>]
         /\ debHeld' = [k \in 1..Len(arrLogic) |-> Undefined]
         /\ throttled' = [k \in 1..Len(arrLogic) |-> FALSE]
         /\ nEntry' = 0
         /\ entryResult' = << >>
         /\ waiters' = << >>
         /\ logicSub' = 1
         /\ logicCount' = 0 + Len(arrLogic)
         /\ deps' = [k \in DepKeys |-> Undefined]
         /\ lastCall' = [op |-> "createLogicMiddleware", arg |-> arrLogic,
                         threw |-> FALSE, before |-> savedLogicArr]
         /\ UNCHANGED << throwsOn, NODE_ENV, nextThrowsOn >>

\* the timer of debounceTime fires: the action held back goes on
DebounceFire(k, pbs) ==
    /\ Truthy(debHeld[k])
    /\ Commit(throttling([Cur EXCEPT !.debHeld[k] = Undefined], k, debHeld[k], pbs))
    /\ UNCHANGED << savedLogicArr, throwsOn, nEntry, entryResult, logicSub, apiVars >>

\* the timer of throttleTime fires: the window closes
ThrottleExpire(k) ==
    /\ throttled[k]
    /\ throttled' = [throttled EXCEPT ![k] = FALSE]
    /\ UNCHANGED << savedLogicArr, throwsOn, insts, monitor, pending, storeLog, nextLog,
                    debHeld, nEntry, entryResult, waiters, logicSub, apiVars >>

\* the timer createLogicAction$ starts next to an instance, in a build
\* other than production and when warnTimeout is set: it runs until
\* cancelled$ fires or completes, and has not fired yet
warnTimerRunning_NoTakeUntil(inst) ==
    /\ NODE_ENV # "production" /\ Logics[inst.logic].warnTimeout # 0
    /\ ~inst.warned

warnTimerRunning(inst) ==
    /\ NODE_ENV # "production" /\ Logics[inst.logic].warnTimeout # 0
    /\ inst.cancelledAlive
    /\ ~inst.warned

\* the warning timer of an instance fires: console.error logs that the
\* unit is still running
WarnTimeout(i) ==
    /\ warnTimerRunning(insts[i])
    /\ insts' = [insts EXCEPT ![i].warned = TRUE]
    /\ UNCHANGED << savedLogicArr, throwsOn, monitor, pending, storeLog, nextLog,
                    debHeld, throttled, nEntry, entryResult, waiters, logicSub,
                    apiVars >>

Next ==
    \/ \E t \in Types, pbs \in ProcChoices : mw(t, pbs)
    \/ \E i \in 1..Len(insts), d \in Decisions, pbs \in ProcChoices : Allow(i, d, pbs)
    \/ \E i \in 1..Len(insts), d \in Decisions, pbs \in ProcChoices : Reject(i, d, pbs)
    \/ \E i \in 1..Len(insts), kind \in ItemKinds :
          Dispatch(i, kind)
    \/ \E i \in 1..Len(insts) : Done(i)
    \/ \E i \in 1..Len(insts), c \in 1..(MaxDispatch + 1) : Resolve(i, c)
    \/ \E i \in 1..Len(insts), c \in 1..(MaxDispatch + 1) : RejectPromise(i, c)
    \/ \E k \in 1..NumLogic, pbs \in ProcChoices : DebounceFire(k, pbs)
    \/ \E k \in 1..NumLogic : ThrottleExpire(k)

Spec == Init /\ [][Next]_vars

\* the same middleware with an application that also calls whenComplete
InitWhen ==
    /\ InitBuild("development", {})
    /\ savedLogicArr \in {CancelReturn, DebounceReturn, ThrottleSingle, FailString,
                          LatestValidate}
    /\ throwsOn = {}

NextWhen == Next \/ whenComplete

SpecWhen == InitWhen /\ [][NextWhen]_vars

\* the same middleware before a next that throws on some types of action
NextThrows == { {}, {"A"}, {"A", "B", "C"} }

InitNext ==
    /\ \E throwing \in NextThrows : InitBuild("development", throwing)
    /\ savedLogicArr \in {CancelReturn, DebounceReturn, ThrottleSingle, FailString,
                          Chain}
    /\ throwsOn = {}

SpecNext == InitNext /\ [][Next]_vars

\* the same middleware in either build, with the warning timers firing
InitWarn ==
    /\ \E build \in Builds : InitBuild(build, {})
    /\ savedLogicArr \in {CancelReturn, DebounceReturn, ThrottleSingle, FailString}
    /\ throwsOn = {}

NextWarn == Next \/ \E i \in 1..Len(insts) : WarnTimeout(i)

SpecWarn == InitWarn /\ [][NextWarn]_vars

\* the same middleware with an application that also replaces or extends
\* the registered units
InitApply ==
    /\ Init
    /\ savedLogicArr \in {CancelReturn, DebounceReturn, ThrottleSingle, FailString}
    /\ throwsOn = {}

NextApply ==
    \/ Next
    \/ \E arr \in NewLogic : replaceLogic(arr)
    \/ \E arr \in NewLogic : addLogic(arr)

SpecApply == InitApply /\ [][NextApply]_vars

\* the types and the patterns matchesType is called with: no pattern,
\* strings, arrays of up to two strings, a RegExp
MatchTypes == {"A", "C", "*", ""}
MatchStrings == { Str(t) : t \in MatchTypes }
MatchPatterns ==
    { NoPattern, Arr(<< >>), Re({"A"}) }
    \cup MatchStrings
    \cup { Arr(<< p >>) : p \in MatchStrings }
    \cup { Arr(<< p, q >>) : p \in MatchStrings, q \in MatchStrings }

\* a call of matchesType(tStrArrRe, type)
callMatchesType(tStrArrRe, type) ==
    /\ lastCall' = [op |-> "matchesType", pattern |-> tStrArrRe, type |-> type,
                    result |-> matchesType(tStrArrRe, type)]
    /\ UNCHANGED << savedLogicArr, throwsOn, insts, monitor, pending, storeLog,
                    nextLog, debHeld, throttled, nEntry, entryResult, waiters,
                    logicSub, logicCount, deps, NODE_ENV, nextThrowsOn >>

\* the arguments of addDeps: a value that is no object, or an object, as
\* the sequence of its keys and values in the order Object.keys gives them
DepArgs ==
    { [isObject |-> FALSE, pairs |-> << >>] }
    \cup { [isObject |-> TRUE, pairs |-> ps] :
             ps \in { << >> }
                    \cup { << << k, v >> >> : k \in DepKeys, v \in DepValues \cup {Undefined} }
                    \cup { << << "k1", v >>, << "k2", w >> >> :
                             v \in DepValues \cup {Undefined}, w \in DepValues }
                    \cup { << << "k2", v >>, << "k1", w >> >> :
                             v \in DepValues, w \in DepValues } }

RECURSIVE addDepsEach_Overrides(_, _, _)
\* mutant: a value that is there already is replaced
addDepsEach_Overrides(d, pairs, n) ==
    IF n > Len(pairs) THEN [deps |-> d, threw |-> FALSE]
    ELSE addDepsEach_Overrides([d EXCEPT ![pairs[n][1]] = pairs[n][2]], pairs, n + 1)

RECURSIVE addDepsEach(_, _, _)
\* Object.keys(additionalDeps).forEach(k => ...), from the n-th key on: the
\* keys before the one that throws have been set
addDepsEach(d, pairs, n) ==
    IF n > Len(pairs) THEN [deps |-> d, threw |-> FALSE]
    ELSE IF d[pairs[n][1]] # Undefined /\ d[pairs[n][1]] # pairs[n][2]
    THEN [deps |-> d, threw |-> TRUE]
    ELSE addDepsEach([d EXCEPT ![pairs[n][1]] = pairs[n][2]], pairs, n + 1)

\* mw.addDeps(additionalDeps)
addDeps(additionalDeps) ==
    /\ deps' = IF additionalDeps.isObject
               THEN addDepsEach(deps, additionalDeps.pairs, 1).deps ELSE deps
    /\ lastCall' = [op |-> "addDeps", arg |-> additionalDeps,
                    threw |-> IF additionalDeps.isObject
                              THEN addDepsEach(deps, additionalDeps.pairs, 1).threw
                              ELSE TRUE,
                    before |-> deps]
    /\ UNCHANGED << savedLogicArr, throwsOn, insts, monitor, pending, storeLog,
                    nextLog, debHeld, throttled, nEntry, entryResult, waiters,
                    logicSub, logicCount, NODE_ENV, nextThrowsOn >>

\* the arrays of units handed to the constructor and to the calls that
\* register units: empty, with one or two units, with the same unit twice
ApiArrays == { << >>, << 4 >>, << 5 >>, << 4, 5 >>, << 5, 4 >>, << 4, 4 >>,
               << 5, 5 >> }

\* an application that only calls the programming interface of the
\* middleware
InitApi ==
    /\ Init
    /\ savedLogicArr \in {CancelReturn, ThrottleSingle}
    /\ throwsOn = {}

NextApi ==
    \/ \E arr \in ApiArrays : createLogicMiddleware(arr)
    \/ \E arr \in ApiArrays : replaceLogic(arr)
    \/ \E arr \in ApiArrays : addLogic(arr)
    \/ \E arr \in ApiArrays : mergeNewLogic(arr)
    \/ \E additionalDeps \in DepArgs : addDeps(additionalDeps)

SpecApi == InitApi /\ [][NextApi]_vars

\* the process hooks and the processOptions createLogic is called with:
\* every arity up to MaxArity, each of the two options left out, true or
\* false
MaxArity == 4
OptionNames == {"dispatchReturn", "dispatchMultiple"}
ProcessOptions ==
    UNION { [names -> BOOLEAN] : names \in SUBSET OptionNames }

callCreateLogic(arity, processOptions) ==
    /\ lastCall' = [op |-> "createLogic", arity |-> arity,
                    given |-> processOptions,
                    result |-> dispatchModes(arity, processOptions)]
    /\ UNCHANGED << savedLogicArr, throwsOn, insts, monitor, pending, storeLog,
                    nextLog, debHeld, throttled, nEntry, entryResult, waiters,
                    logicSub, logicCount, deps, NODE_ENV, nextThrowsOn >>

\* the functions that read no state, called on their own
InitPure ==
    /\ Init
    /\ savedLogicArr = CancelReturn
    /\ throwsOn = {}

NextPure ==
    \/ \E tStrArrRe \in MatchPatterns, type \in MatchTypes :
          callMatchesType(tStrArrRe, type)
    \/ \E arity \in 0..MaxArity, processOptions \in ProcessOptions :
          callCreateLogic(arity, processOptions)

SpecPure == InitPure /\ [][NextPure]_vars

\* ------------------------------------------------------------------------
\* History helpers
\* ------------------------------------------------------------------------
\* the events instance i published on monitor$, in order
EventsOf(i) ==
    LET Mine(e) == e.inst = i
    IN  SelectSeq(monitor[insts[i].action.id], Mine)

\* the ops of the events instance i published
OpsOf(i) == [n \in 1..Len(EventsOf(i)) |-> EventsOf(i)[n].op]

\* how many events with this op instance i published
CountOp(i, op) == Cardinality({ n \in 1..Len(OpsOf(i)) : OpsOf(i)[n] = op })

\* the calls of store.dispatch instance i made, in order
StoreCallsOf(i) ==
    LET Mine(e) == e.inst = i
    IN  SelectSeq(storeLog[insts[i].action.id], Mine)

Instances == 1..Len(insts)

\* ------------------------------------------------------------------------
\* Claims
\* ------------------------------------------------------------------------
\* C1: the pending counter folded from the monitor events is never negative,
\* whatever the interleaving of incoming actions, allow/reject calls,
\* dispatch/done calls and cancellations.
C1_PendingNeverNegative == pending >= 0

\* every instance has reached a terminal state and no timer holds an action
AllSettled ==
    /\ \A i \in Instances : ~insts[i].dispAlive
    /\ \A k \in 1..NumLogic : ~Truthy(debHeld[k])

\* C2: once every lifecycle instance has reached a terminal state the
\* pending counter is 0, for units with any combination of latest,
\* cancelType, debounce and throttle.
C2_SettlesToZero == AllSettled => pending = 0

\* instance i has heard of a cancellation
Cancelled(i) == CountOp(i, "cancelled") + CountOp(i, "dispCancelled") > 0

\* instance i has published end
Ended(i) == CountOp(i, "end") > 0

\* C3: for a unit with latest: true, once a second instance of the unit has
\* begun, the first instance is no longer running (its cancellation came
\* with the second begin at the latest) and none of its values reached the
\* store after the second instance had begun.
C3_LatestCancelsFirst ==
    \A i \in Instances, j \in Instances :
        (i < j /\ insts[i].logic = insts[j].logic /\ Logics[insts[i].logic].latest)
        => /\ ~insts[i].dispAlive
           /\ Ended(i)
           /\ \A n \in 1..Len(StoreCallsOf(i)) : StoreCallsOf(i)[n].begun < j

\* C3 witness: a takeLatest unit whose first instance dispatched to the
\* store, was overtaken by a second instance, and called dispatch() again
C3_Witness ==
    \E i \in Instances, j \in Instances :
        /\ i < j /\ insts[i].logic = insts[j].logic /\ Logics[insts[i].logic].latest
        /\ Len(StoreCallsOf(i)) = 1
        /\ Cancelled(i)
        /\ \E c \in 1..Len(insts[i].calls) :
              insts[i].calls[c].kind = "plain" /\ ~insts[i].calls[c].live

\* the places of the events with one of these ops among those of instance i
PlacesOf(i, ops) == { n \in 1..Len(OpsOf(i)) : OpsOf(i)[n] \in ops }

\* C4: once the cancellation signal has fired for an instance, no value of
\* that instance reaches the store: no store dispatch of the instance
\* follows its cancelled / dispCancelled event.
C4_NoDispatchAfterCancel ==
    \A i \in Instances :
        \A n \in PlacesOf(i, {"cancelled", "dispCancelled"}),
           m \in PlacesOf(i, {"dispatch"}) : m < n

\* C4 witness: a cancelled instance that had queued a promise before the
\* cancellation, whose promise has resolved since, and that has called
\* dispatch() with a plain value after the cancellation; nothing of it
\* reached the store
C4_Witness ==
    \E i \in Instances :
        /\ Cancelled(i)
        /\ \E c \in insts[i].resolved : insts[i].calls[c].live
        /\ \E c \in 1..Len(insts[i].calls) :
              insts[i].calls[c].kind = "plain" /\ ~insts[i].calls[c].live
        /\ StoreCallsOf(i) = << >>

\* the dispatch() calls of instance i whose values reached the store, in
\* the order they reached it
StoreOrderOf(i) == [n \in 1..Len(StoreCallsOf(i)) |-> StoreCallsOf(i)[n].call]

\* C5 (as claimed): within one instance the values handed to dispatch()
\* reach the store strictly in the order dispatch() was called, also when
\* some of them are promises that settle later.
C5_StoreInCallOrder ==
    \A i \in Instances :
        \A m \in 1..Len(StoreOrderOf(i)), n \in 1..Len(StoreOrderOf(i)) :
            m < n => StoreOrderOf(i)[m] < StoreOrderOf(i)[n]

\* the value of the c-th dispatch() call of instance i is there at once
\* (a plain value or the action of the intercept hook), not a promise
Immediate(i, c) == insts[i].calls[c].kind \in {"plain", "intercept"}

\* C5 (amended): a value that is not a promise reaches the store during its
\* dispatch() call when dispatch$ is still open, so such values reach the
\* store in the order dispatch() was called; the value of a promise reaches
\* the store when the promise resolves, wherever that falls among the others.
C5_ImmediateInCallOrder ==
    \A i \in Instances :
        /\ \A m \in 1..Len(StoreOrderOf(i)), n \in 1..Len(StoreOrderOf(i)) :
              (m < n /\ Immediate(i, StoreOrderOf(i)[m])
                     /\ Immediate(i, StoreOrderOf(i)[n]))
              => StoreOrderOf(i)[m] < StoreOrderOf(i)[n]
        /\ \A c \in 1..Len(insts[i].calls) :
              (Immediate(i, c) /\ insts[i].calls[c].live)
              => \E n \in 1..Len(StoreOrderOf(i)) : StoreOrderOf(i)[n] = c
        /\ \A n \in 1..Len(StoreOrderOf(i)) :
              insts[i].calls[StoreOrderOf(i)[n]].kind = "promise"
              => StoreOrderOf(i)[n] \in insts[i].resolved \cup insts[i].rejected

\* C5 witness: a promise dispatched first reached the store after a plain
\* value dispatched second
C5_Witness ==
    \E i \in Instances :
        /\ Len(insts[i].calls) >= 2
        /\ insts[i].calls[1].kind = "promise"
        /\ insts[i].calls[2].kind = "plain"
        /\ StoreOrderOf(i) = << 2, 1 >>

\* the instances unit k has begun, oldest first
InstancesOf(k) == { i \in Instances : insts[i].unit = k }

\* the incoming actions that have reached the entry point and match unit 1
Arrived == { n \in 1..nEntry :
               matchesType(Logics[savedLogicArr[1]].type, monitor[n][1].act.type) }

\* a first unit that debounces and does not throttle
Debounced ==
    /\ Logics[savedLogicArr[1]].debounce > 0
    /\ Logics[savedLogicArr[1]].throttle = 0

\* C6: with debounce N > 0, a burst of matching actions, each arriving
\* before the timer of the previous one fires, starts exactly one instance,
\* for the last action of the burst.  The instances of the unit are for
\* different actions; an instance is for the last matching action that
\* had arrived when it began (the held action or nothing arrived since);
\* and every matching action either has its instance, is still held back,
\* or was followed by another matching action before its timer fired.
C6_DebounceLastOfBurst ==
    Debounced =>
        /\ \A i \in InstancesOf(1), j \in InstancesOf(1) :
              i # j => insts[i].action.id # insts[j].action.id
        /\ \A i \in InstancesOf(1) :
              /\ insts[i].action.id \in Arrived
              /\ insts[i].action = monitor[insts[i].action.id][1].act
        /\ \A i \in InstancesOf(1), j \in InstancesOf(1) :
              i < j => insts[i].action.id < insts[j].action.id
        /\ LET begun == { insts[i].action.id : i \in InstancesOf(1) }
               last  == IF Arrived = {} THEN 0
                        ELSE CHOOSE n \in Arrived : \A m \in Arrived : m <= n
           IN  /\ Truthy(debHeld[1]) => debHeld[1].id = last /\ last \notin begun
               /\ (~Truthy(debHeld[1]) /\ last > 0) => last \in begun
               /\ Cardinality(begun) + (IF Truthy(debHeld[1]) THEN 1 ELSE 0)
                    <= Cardinality(Arrived)

\* C6 witness: two matching actions arrived in one burst, the timer fired,
\* and the one instance is for the second action
C6_Witness ==
    /\ Debounced
    /\ Arrived = {1, 2}
    /\ ~Truthy(debHeld[1])
    /\ Len(insts) = 1
    /\ insts[1].action.id = 2

\* the dispatch() calls of instance i that carry what its process hook
\* returned
ReturnCalls(i) ==
    { c \in 1..Len(insts[i].calls) : insts[i].calls[c].kind \in {"plain", "promise"} }

\* the calls of store.dispatch instance i made for its c-th dispatch() call
StoreCallsFor(i, c) ==
    { n \in 1..Len(StoreCallsOf(i)) : StoreCallsOf(i)[n].call = c }

\* instance i runs in dispatch-return mode, its process hook has run, and
\* no cancellation has reached it
ReturnMode(i) ==
    /\ Logics[insts[i].logic].processOptions.dispatchReturn
    /\ ~Logics[insts[i].logic].processOptions.dispatchMultiple
    /\ insts[i].processed = 1
    /\ ~Cancelled(i)

\* C7: in dispatch-return mode, when the process hook returns a plain value
\* V, or a promise that resolves to V, V is dispatched to the store exactly
\* once and the instance then ends (end follows the dispatch); when the
\* hook returns undefined the instance ends and nothing of the process hook
\* is dispatched.
C7_DispatchReturn ==
    \A i \in Instances :
        ReturnMode(i) =>
            /\ insts[i].returned[1] = "plain" =>
                  /\ \E c \in ReturnCalls(i) :
                        /\ ReturnCalls(i) = {c}
                        /\ Cardinality(StoreCallsFor(i, c)) = 1
                        /\ \A n \in StoreCallsFor(i, c) :
                              StoreCallsOf(i)[n].act = PlainVal(i, c)
                  /\ Ended(i)
            /\ insts[i].returned[1] = "promise" =>
                  \E c \in ReturnCalls(i) :
                        /\ ReturnCalls(i) = {c}
                        /\ c \in insts[i].resolved =>
                              /\ Cardinality(StoreCallsFor(i, c)) = 1
                              /\ \A n \in StoreCallsFor(i, c) :
                                    StoreCallsOf(i)[n].act = PlainVal(i, c)
                              /\ Ended(i)
                        /\ c \in insts[i].promises =>
                              /\ StoreCallsFor(i, c) = {}
                              /\ ~Ended(i)
            /\ insts[i].returned[1] = "undefined" =>
                  /\ ReturnCalls(i) = {}
                  /\ \A n \in 1..Len(StoreCallsOf(i)) :
                        insts[i].calls[StoreCallsOf(i)[n].call].kind = "intercept"
                  /\ Ended(i)
            /\ CountOp(i, "end") <= 1
            /\ \A n \in PlacesOf(i, {"end"}), m \in PlacesOf(i, {"dispatch"}) : m < n

\* C7 witness: an instance in dispatch-return mode whose process hook
\* returned a promise that has resolved and whose value is in the store
C7_Witness ==
    \E i \in Instances :
        /\ ReturnMode(i)
        /\ insts[i].returned[1] = "promise"
        /\ \E c \in ReturnCalls(i) :
              c \in insts[i].resolved /\ Cardinality(StoreCallsFor(i, c)) = 1
        /\ Ended(i)

\* instance i runs in multi-dispatch mode and its process hook has run
MultiMode(i) ==
    /\ Logics[insts[i].logic].processOptions.dispatchMultiple
    /\ insts[i].processed = 1

\* every plain value instance i handed to dispatch() while dispatch$ was
\* open reached the store, once and as it was
PlainCallsStored(i) ==
    \A c \in 1..Len(insts[i].calls) :
        (insts[i].calls[c].kind = "plain" /\ insts[i].calls[c].live)
        => /\ Cardinality(StoreCallsFor(i, c)) = 1
           /\ \A n \in StoreCallsFor(i, c) : StoreCallsOf(i)[n].act = PlainVal(i, c)

StoreThrewFor(i) ==
    \E n \in 1..Len(StoreCallsOf(i)) : StoreCallsOf(i)[n].threw

\* an error reached the subscriber of dispatch$ of instance i: the process
\* hook threw, dispatched an Error or a failing stream, dispatched a
\* promise that rejected, or store.dispatch threw on one of its values
Errored(i) ==
    \/ \E c \in 1..Len(insts[i].calls) :
          /\ insts[i].calls[c].live
          /\ \/ insts[i].calls[c].kind \in ErrorKinds
             \/ insts[i].calls[c].kind = "promise" /\ c \in insts[i].rejected
    \/ StoreThrewFor(i)

NothingForwarded(n) ==
    /\ nextLog[n] = << >>
    /\ \A p \in 1..Len(monitor[n]) : monitor[n][p].op # "bottom"

\* the intercept hook of instance i called reject(undefined)
RejectedUndefined(i) ==
    insts[i].decided /\ insts[i].decision = Decision(FALSE, "undefined", "auto")

\* C9: reject(undefined) in the intercept hook publishes a filtered event,
\* never invokes the process hook, forwards nothing to the next consumer
\* and dispatches nothing to the store for that instance.
C9_RejectUndefined ==
    \A i \in Instances :
        RejectedUndefined(i) =>
            /\ CountOp(i, "filtered") = 1
            /\ CountOp(i, "next") = 0 /\ CountOp(i, "nextDisp") = 0
            /\ insts[i].processed = 0
            /\ NothingForwarded(insts[i].action.id)
            /\ insts[i].calls = << >>
            /\ StoreCallsOf(i) = << >>
            /\ CountOp(i, "dispatch") = 0
            /\ ~insts[i].dispAlive

\* C9 witness: an instance that was still running when its intercept hook
\* called reject(undefined), and that ended by it
C9_Witness ==
    \E i \in Instances :
        /\ RejectedUndefined(i)
        /\ ~Cancelled(i)
        /\ OpsOf(i) = << "begin", "filtered", "end" >>

\* the intercept hook of instance i called allow(undefined)
AllowedUndefined(i) ==
    insts[i].decided /\ insts[i].decision = Decision(TRUE, "undefined", "auto")

\* C10 (as claimed): allow(undefined) with default options filters the
\* action out: a filtered event is published, nothing is forwarded to the
\* next consumer, and the process hook is not invoked.
C10_AllowUndefinedNoProcess ==
    \A i \in Instances :
        AllowedUndefined(i) =>
            /\ CountOp(i, "filtered") = 1
            /\ NothingForwarded(insts[i].action.id)
            /\ insts[i].processed = 0

\* C10 (amended): allow(undefined) with default options filters the action
\* out of the pipeline: a filtered event is published and nothing is
\* forwarded to the next consumer; the process hook is still invoked, once,
\* and what it returns goes to dispatch$ as after any other allow.
C10_AllowUndefinedStillProcesses ==
    \A i \in Instances :
        AllowedUndefined(i) =>
            /\ CountOp(i, "filtered") = 1
            /\ CountOp(i, "next") = 0 /\ CountOp(i, "nextDisp") = 0
            /\ NothingForwarded(insts[i].action.id)
            /\ insts[i].processed = 1
            /\ (Logics[insts[i].logic].processOptions.dispatchReturn
                /\ insts[i].returned[1] \in {"plain", "promise"})
                  => Cardinality(ReturnCalls(i)) = 1
            /\ \A c \in ReturnCalls(i) :
                  (insts[i].calls[c].kind = "plain" /\ insts[i].calls[c].live)
                  => Cardinality(StoreCallsFor(i, c)) = 1

\* C10 witness: after allow(undefined) the process hook ran and the plain
\* value it returned is in the store, while nothing was forwarded
C10_Witness ==
    \E i \in Instances :
        /\ AllowedUndefined(i)
        /\ insts[i].returned = << "plain" >>
        /\ Len(StoreCallsOf(i)) = 1
        /\ OpsOf(i) = << "begin", "filtered", "dispatch", "end" >>

\* the intercept hook of instance i called reject
Rejected(i) == insts[i].decided /\ ~insts[i].decision.shouldProcess

\* C11: for every call of reject, whatever action it is given (absent, of
\* the original type, of another type) and whatever useDispatch, the
\* process hook is never invoked for the instance, and the instance
\* publishes end without done() being called.
C11_RejectNeverProcesses ==
    \A i \in Instances :
        Rejected(i) =>
            /\ insts[i].processed = 0
            /\ insts[i].returned = << >>
            /\ \A c \in 1..Len(insts[i].calls) : insts[i].calls[c].kind = "intercept"
            /\ CountOp(i, "end") = 1
            /\ ~insts[i].dispAlive
            /\ ~insts[i].doneCalled

\* C11 witness: reject was called with the original action and
\* useDispatch: true on a running instance; the action went to the store
\* and the instance ended by the call
C11_Witness ==
    \E i \in Instances :
        /\ insts[i].decided
        /\ insts[i].decision = Decision(FALSE, "same", "true")
        /\ ~Cancelled(i)
        /\ OpsOf(i) = << "begin", "nextDisp", "dispatch", "end" >>
        /\ insts[i].processed = 0

\* what the intercept hook of instance i handed to allow or reject
DecidedAction(i) == NewAction(insts[i].decision.act, insts[i].action)

\* the intercept hook of instance i has called allow or reject with the
\* default useDispatch, before any cancellation reached the instance
DecidedAuto(i) ==
    /\ insts[i].decided
    /\ insts[i].decision.useDispatch = "auto"
    /\ CountOp(i, "cancelled") = 0

\* the action instance i decided on went through store.dispatch
ViaStore(i) ==
    \E n \in 1..Len(StoreCallsOf(i)) :
        /\ insts[i].calls[StoreCallsOf(i)[n].call].kind = "intercept"
        /\ StoreCallsOf(i)[n].act = DecidedAction(i)

\* the action instance i decided on went on in the outgoing stream: an
\* instance of a later unit began for it, or it reached next
ViaNext(i) ==
    \/ \E j \in Instances :
          /\ insts[j].unit > insts[i].unit
          /\ insts[j].action = DecidedAction(i)
    \/ \E n \in 1..Len(nextLog[insts[i].action.id]) :
          nextLog[insts[i].action.id][n] = DecidedAction(i)

\* C12: with the default useDispatch 'auto', the action passed to allow
\* or reject by a running instance goes through store.dispatch if and only
\* if it is present and its type differs from the type of the original
\* action; it is forwarded in the outgoing stream towards next if and only
\* if it is present and of the original type; it never takes both routes.
C12_AutoRoutesByType ==
    \A i \in Instances :
        DecidedAuto(i) =>
            /\ ViaStore(i) <=> (Truthy(DecidedAction(i))
                                /\ DecidedAction(i).type # insts[i].action.type)
            /\ ViaNext(i) <=> (Truthy(DecidedAction(i))
                               /\ DecidedAction(i).type = insts[i].action.type)
            /\ ~(ViaStore(i) /\ ViaNext(i))
            /\ CountOp(i, "nextDisp") = (IF ViaStore(i) THEN 1 ELSE 0)
            /\ CountOp(i, "next") = (IF ViaNext(i) THEN 1 ELSE 0)

\* C12 witness: one instance whose hook passed on an action of another
\* type, which is in the store and not at next, and one whose hook passed
\* on the original action, which is at next and not in the store
C12_Witness ==
    \E i \in Instances, j \in Instances :
        /\ DecidedAuto(i) /\ DecidedAuto(j)
        /\ ~Logics[insts[i].logic].validate.sync
        /\ ~Logics[insts[j].logic].validate.sync
        /\ insts[i].decision.act = "other" /\ ViaStore(i) /\ ~ViaNext(i)
        /\ insts[j].decision.act = "same" /\ ViaNext(j) /\ ~ViaStore(j)

\* the action of the n-th call of the entry point, as the top event has it
TopAction(n) == monitor[n][1].act

\* the n-th incoming action was published on the incoming stream: the
\* first unit that matches it has an instance for it, or holds it back or
\* drops it by debounce or throttle; matched by no unit, it reached next
RECURSIVE SeenFrom(_, _)
SeenFrom(n, k) ==
    IF k > NumLogic THEN nextLog[n] = << TopAction(n) >>
    ELSE IF matchesType(Logics[savedLogicArr[k]].type, TopAction(n).type)
    THEN \/ Logics[savedLogicArr[k]].debounce > 0
         \/ Logics[savedLogicArr[k]].throttle > 0
         \/ \E i \in Instances : insts[i].unit = k /\ insts[i].action = TopAction(n)
    ELSE SeenFrom(n, k + 1)

\* C13: for every action it is called with, the entry point publishes one
\* top event for that action (before any other event about it), publishes
\* the action on the incoming stream, and returns the same action to its
\* caller, whatever the units do with the action.
C13_EntryPassThrough ==
    /\ Len(entryResult) = nEntry
    /\ \A n \in 1..MaxActions : n > nEntry => monitor[n] = << >>
    /\ \A n \in 1..nEntry :
          /\ Len(monitor[n]) >= 1
          /\ monitor[n][1].op = "top"
          /\ \A p \in 2..Len(monitor[n]) : monitor[n][p].op # "top"
          /\ TopAction(n).id = n
          /\ entryResult[n] = TopAction(n)
          /\ SeenFrom(n, 1)

\* C13 witness: the entry point returned an action that a unit filtered
\* out, and an action that cancelled an instance
C13_Witness ==
    /\ nEntry = 2
    /\ entryResult[1].type = "A" /\ entryResult[2].type = "C"
    /\ \E i \in Instances :
          /\ insts[i].action = entryResult[1]
          /\ OpsOf(i) = << "begin", "cancelled", "end", "filtered" >>
    /\ nextLog[1] = << >>

\* the places, among the events about the incoming action of instance i,
\* of the events with this op that instance i published
PlacesIn(i, op) ==
    { p \in 1..Len(monitor[insts[i].action.id]) :
         /\ monitor[insts[i].action.id][p].inst = i
         /\ monitor[insts[i].action.id][p].op = op }

\* instance i belongs to an earlier unit than instance j and to the same
\* incoming action
Upstream(i, j) ==
    /\ insts[i].action.id = insts[j].action.id
    /\ insts[i].unit < insts[j].unit

\* C14: units process an action in the order of the registered array.  An
\* instance of a later unit begins for an action only after every earlier
\* unit that matched it has forwarded it (its next event precedes the
\* begin); it receives the action as the nearest earlier unit forwarded it;
\* it never begins for an action that an earlier unit filtered out or
\* re-dispatched; and no earlier unit that matches the action was skipped.
C14_UnitsInArrayOrder ==
    \A j \in Instances :
        /\ \A i \in Instances :
              Upstream(i, j) =>
                  /\ Cardinality(PlacesIn(i, "next")) = 1
                  /\ \A p \in PlacesIn(i, "next"), q \in PlacesIn(j, "begin") : p < q
                  /\ PlacesIn(i, "filtered") = {} /\ PlacesIn(i, "nextDisp") = {}
                  /\ (\A h \in Instances :
                         Upstream(h, j) => insts[h].unit <= insts[i].unit)
                     => \A p \in PlacesIn(i, "next") :
                           monitor[insts[i].action.id][p].act = insts[j].action
        /\ \A k \in 1..(insts[j].unit - 1) :
              \/ \E i \in Instances : Upstream(i, j) /\ insts[i].unit = k
              \/ ~matchesType(Logics[savedLogicArr[k]].type, insts[j].action.type)

\* C14 witness: the second unit began for the action as the validate hook
\* of the first unit had transformed it, while another action stopped at
\* the first unit, which filtered it out
C14_Witness ==
    \E i \in Instances, j \in Instances, h \in Instances :
        /\ Upstream(i, j)
        /\ ~Logics[insts[i].logic].validate.sync
        /\ insts[i].decision.act = "changed"
        /\ insts[j].action.x = 1
        /\ insts[h].unit = 1 /\ h # i
        /\ PlacesIn(h, "filtered") # {}
        /\ \A g \in Instances : ~Upstream(h, g)

\* no registered unit matches the type of the n-th incoming action
MatchesNoUnit(n) ==
    \A k \in 1..NumLogic :
        ~matchesType(Logics[savedLogicArr[k]].type, TopAction(n).type)

\* C15: an action whose type matches no registered unit reaches next
\* exactly once and unchanged, starts no lifecycle instance, and produces
\* exactly one top and one bottom monitor event, both carrying the action.
C15_NonMatchingPassThrough ==
    \A n \in 1..nEntry :
        MatchesNoUnit(n) =>
            /\ nextLog[n] = << entryResult[n] >>
            /\ \A i \in Instances : insts[i].action.id # n
            /\ Cardinality({ p \in 1..Len(monitor[n]) : monitor[n][p].op = "top" }) = 1
            /\ Cardinality({ p \in 1..Len(monitor[n]) : monitor[n][p].op = "bottom" }) = 1
            /\ monitor[n][1] = Event("top", n, 0, entryResult[n])
            /\ monitor[n][Len(monitor[n])] = Event("bottom", n, 0, entryResult[n])
            /\ \A p \in 1..Len(monitor[n]) : monitor[n][p].inst = 0

\* C15 witness: an action that no unit matches went through while an
\* instance of another action was running, which it cancelled
C15_Witness ==
    \E n \in 1..nEntry :
        /\ MatchesNoUnit(n)
        /\ nextLog[n] = << entryResult[n] >>
        /\ \E i \in Instances :
              /\ insts[i].action.id < n
              /\ cancelMatches(Logics[insts[i].logic], entryResult[n].type)
              /\ Cancelled(i)

\* the process hook of instance i threw
Threw(i) ==
    insts[i].processed = 1 /\ insts[i].returned[1] \in {"throw", "doneThrow"}

\* the dispatch() calls of instance i that carry what its process hook threw
ThrowCalls(i) ==
    { c \in 1..Len(insts[i].calls) : insts[i].calls[c].kind = "observable" }

ErrorOf(i, c) ==
    LET kind == insts[i].calls[c].kind
    IN  IF kind = "typedError" THEN TypedErrVal(i, c)
        ELSE IF kind = "throwObject" THEN ObjVal(i, c)
        ELSE IF kind = "throwPrimitive" THEN PrimVal(i, c)
        ELSE ErrVal(i, c)

\* the c-th dispatch() call of instance i put a failing stream into
\* dispatch$ while it was open: its error has been drained
Drained(i, c) ==
    /\ c \in 1..Len(insts[i].calls)
    /\ insts[i].calls[c].live
    /\ insts[i].calls[c].kind \in ErrorKinds

\* the generic error action
Unhandled(e) == [type |-> UNHANDLED_LOGIC_ERROR, payload |-> e, error |-> TRUE]

\* the action an error value is mapped to, as claimed: through failType
\* when configured, else as it is when it carries a type field, else wrapped
ClaimedErrorAction(i, c) ==
    LET failType == Logics[insts[i].logic].processOptions.failType
        e == ErrorOf(i, c)
    IN  IF failType.kind = "str"
          THEN [type |-> failType.s, payload |-> e, error |-> TRUE]
        ELSE IF failType.kind = "fn"
          THEN IF failType.returns = "nothing" THEN Undefined
               ELSE [type |-> "CREATED", payload |-> e]
        ELSE IF "type" \in DOMAIN e THEN e
        ELSE Unhandled(e)

\* C17 (as claimed): an error value drained from the dispatch queue is
\* dispatched mapped through failType when configured; otherwise as it is
\* when it carries a type field; otherwise wrapped into an
\* UNHANDLED_LOGIC_ERROR action with the error as payload and the error flag.
C17_ErrorMappingAsClaimed ==
    \A i \in Instances : \A c \in 1..Len(insts[i].calls) :
        (Drained(i, c) /\ Truthy(ClaimedErrorAction(i, c))) =>
            /\ Cardinality(StoreCallsFor(i, c)) = 1
            /\ \A n \in StoreCallsFor(i, c) :
                  StoreCallsOf(i)[n].act = ClaimedErrorAction(i, c)

\* the action an error value is mapped to: as claimed, but without
\* failType an object that is not an Error is dispatched as it is, with or
\* without a type field
ErrorAction(i, c) ==
    LET failType == Logics[insts[i].logic].processOptions.failType
        e == ErrorOf(i, c)
    IN  IF failType.kind # "none" THEN ClaimedErrorAction(i, c)
        ELSE IF "isError" \in DOMAIN e
          THEN IF "type" \in DOMAIN e THEN e ELSE Unhandled(e)
        ELSE IF "isObject" \in DOMAIN e THEN e
        ELSE Unhandled(e)

\* C17 (amended): an error value drained from the dispatch queue is
\* dispatched mapped through failType when configured (a type string gives
\* {type, payload, error: true}; a function gives its result, and nothing
\* is dispatched when the result is absent); otherwise an Error that carries
\* a type field is dispatched as it is and an Error without one is wrapped
\* into an UNHANDLED_LOGIC_ERROR action; a value that is not an Error is
\* dispatched as it is when it is an object and wrapped otherwise.  The
\* instance ends right after.
C17_ErrorMapping ==
    \A i \in Instances : \A c \in 1..Len(insts[i].calls) :
        Drained(i, c) =>
            /\ Truthy(ErrorAction(i, c)) =>
                  /\ Cardinality(StoreCallsFor(i, c)) = 1
                  /\ \A n \in StoreCallsFor(i, c) :
                        /\ StoreCallsOf(i)[n].act = ErrorAction(i, c)
                        /\ n = Len(StoreCallsOf(i))
            /\ ~Truthy(ErrorAction(i, c)) => StoreCallsFor(i, c) = {}
            /\ OpsOf(i)[Len(OpsOf(i))] = "end"

\* C17 witness: without failType, one instance dispatched an Error with a
\* type field, which is in the store as it is, and another an Error
\* without, which is in the store wrapped
C17_Witness ==
    \E i \in Instances, j \in Instances :
        /\ Drained(i, 1) /\ insts[i].calls[1].kind = "typedError"
        /\ Len(StoreCallsOf(i)) = 1
        /\ StoreCallsOf(i)[1].act = TypedErrVal(i, 1)
        /\ Drained(j, 1) /\ insts[j].calls[1].kind = "error"
        /\ Len(StoreCallsOf(j)) = 1
        /\ StoreCallsOf(j)[1].act = Unhandled(ErrVal(j, 1))

\* C18: when store.dispatch throws on a value an instance dispatches, the
\* exception is caught and reported as a nextError monitor event of that
\* instance, and the pending counter is touched by nothing but the
\* instance's own end.
C18_StoreThrowReported ==
    \A i \in Instances :
        StoreThrewFor(i) =>
            /\ \E p \in 1..Len(monitor[insts[i].action.id]) :
                  /\ monitor[insts[i].action.id][p].op = "nextError"
                  /\ monitor[insts[i].action.id][p].inst = i
            /\ CountOp(i, "end") <= 1

\* C19: the promise whenComplete returns stays unresolved while the
\* pending counter is not 0 and resolves the first time the counter is 0
\* from the call on, at once when it is 0 at the call; it resolves at most
\* once, with the result of the caller's callback.
C19_WhenCompleteAtZero ==
    \A w \in 1..Len(waiters) :
        /\ Len(waiters[w].resolved) <= 1
        /\ (waiters[w].resolved # << >>) <=> waiters[w].sawZero
        /\ waiters[w].resolved = << >> => (pending # 0 /\ waiters[w].open)
        /\ waiters[w].resolved # << >> =>
              (waiters[w].resolved[1] = Resolution /\ ~waiters[w].open)
        /\ waiters[w].calledAt = 0 => waiters[w].resolved # << >>

\* C19 witness: whenComplete was called with actions in flight and its
\* promise has resolved since, and the counter has moved on
C19_Witness ==
    \E w \in 1..Len(waiters) :
        /\ waiters[w].calledAt > 0
        /\ waiters[w].resolved = << Resolution >>
        /\ pending # 0

\* instance i was begun under an earlier subscription of actionOut$: a call
\* of replaceLogic or addLogic has come since
BegunBefore(i) == insts[i].sub < logicSub

\* what a call of replaceLogic or addLogic does to the instances in flight:
\* nothing is published on monitor$, nothing goes to the store, and every
\* instance keeps its cancelled$ and its dispatch$ as they were
CallLeavesInFlight ==
    (logicSub' # logicSub)
    => /\ monitor' = monitor
       /\ storeLog' = storeLog
       /\ pending' = pending
       /\ Len(insts') = Len(insts)
       /\ \A i \in Instances :
             [insts'[i] EXCEPT !.outerAlive = insts[i].outerAlive] = insts[i]

\* instance i, begun before the call, goes on as any other: the values it
\* dispatches while dispatch$ is open reach the store, and it publishes
\* end when dispatch$ is over
GoesOn(i) ==
    /\ \A c \in 1..Len(insts[i].calls) :
          (insts[i].calls[c].kind = "plain" /\ insts[i].calls[c].live)
          => \E n \in 1..Len(StoreCallsOf(i)) : StoreCallsOf(i)[n].call = c
    /\ (insts[i].srcStopped /\ insts[i].inner = {}) => ~insts[i].dispAlive
    /\ ~insts[i].dispAlive => Ended(i)
    /\ Cancelled(i) =>
          \E n \in 1..nEntry :
              /\ n > insts[i].action.id
              /\ cancelMatches(Logics[insts[i].logic], entryResult[n].type)

\* C20: replacing or extending the registered units never cancels an
\* instance in flight: the call publishes no cancelled or dispCancelled
\* event and closes no dispatch$, an instance begun before the call is
\* cancelled only by a later action of its cancel types, the values it
\* dispatches afterwards still reach the store, and it still publishes end.
C20_ReplaceKeepsInFlight ==
    /\ [][CallLeavesInFlight]_vars
    /\ [](\A i \in Instances : BegunBefore(i) => GoesOn(i))

\* C20 witness: an instance begun before a call of replaceLogic or addLogic
\* that was never cancelled, dispatched to the store after the call, and
\* has published end
C20_Witness ==
    \E i \in Instances :
        /\ BegunBefore(i)
        /\ ~Cancelled(i)
        /\ \E n \in 1..Len(StoreCallsOf(i)) : StoreCallsOf(i)[n].sub > insts[i].sub
        /\ Ended(i)

\* the list holds the same unit object twice
HasTwice(arr) == \E m \in 1..Len(arr), n \in 1..Len(arr) : m < n /\ arr[m] = arr[n]

\* the list holds a unit object of the other list
HasOneOf(arr, registered) ==
    \E m \in 1..Len(arr), k \in 1..Len(registered) : arr[m] = registered[k]

\* the units of the list that are not in the other list, in order
Others(arr, registered) ==
    LET Other(x) == \A k \in 1..Len(registered) : registered[k] # x
    IN  SelectSeq(arr, Other)

C22_CountIsRegistered ==
    /\ logicCount = Len(savedLogicArr)
    /\ (lastCall.op \in {"addLogic", "mergeNewLogic", "replaceLogic"} /\ ~lastCall.threw)
       => lastCall.result = Len(savedLogicArr)
    /\ (lastCall.op = "addLogic" /\ lastCall.arg = << >>)
       => (~lastCall.threw /\ savedLogicArr = lastCall.before)

\* C22 witness: replaceLogic has registered one unit in the place of two
C22_Witness ==
    /\ lastCall.op = "replaceLogic"
    /\ ~lastCall.threw
    /\ Len(lastCall.before) = 2
    /\ Len(savedLogicArr) = 1

\* the last call was addDeps
AddDepsCalled == lastCall.op = "addDeps"

\* the object handed to addDeps has a key that had a defined value
\* different from the one the object gives it
Conflict ==
    \E n \in 1..Len(lastCall.arg.pairs) :
        /\ lastCall.before[lastCall.arg.pairs[n][1]] # Undefined
        /\ lastCall.before[lastCall.arg.pairs[n][1]] # lastCall.arg.pairs[n][2]

\* C23: addDeps throws when a key has a defined value different from the
\* new one; whether it throws or not, no key that had a defined value has
\* another value afterwards; for an object without such a key it does not
\* throw, also when it gives keys the values they have, and every key of
\* the object has the value given.
C23_AddDepsNeverOverrides ==
    AddDepsCalled
    => /\ Conflict => lastCall.threw
       /\ \A k \in DepKeys : lastCall.before[k] # Undefined => deps[k] = lastCall.before[k]
       /\ (lastCall.arg.isObject /\ ~Conflict)
          => /\ ~lastCall.threw
             /\ \A n \in 1..Len(lastCall.arg.pairs) :
                   deps[lastCall.arg.pairs[n][1]] = lastCall.arg.pairs[n][2]

\* C23 witness: addDeps has returned for an object that gives one key the
\* value it had and another key its first value
C23_Witness ==
    /\ AddDepsCalled
    /\ ~lastCall.threw
    /\ \E m, n \in 1..Len(lastCall.arg.pairs) :
          /\ lastCall.before[lastCall.arg.pairs[m][1]] = lastCall.arg.pairs[m][2]
          /\ lastCall.arg.pairs[m][2] # Undefined
          /\ lastCall.before[lastCall.arg.pairs[n][1]] = Undefined
          /\ lastCall.arg.pairs[n][2] # Undefined

\* the string pattern p matches the type t as the contract has it: the
\* wildcard matches every type, another string only the identical type
StringMatches(p, t) == p.s = "*" \/ (p.s = t /\ p.s # "")

\* C24: matchesType is true for every type when the pattern is '*', for
\* another string pattern only on the identical type (and, the string not
\* being empty, on the identical type it is true), for a list of strings
\* exactly when some member matches, and false for every type when no
\* pattern is given.
C24_MatcherContract ==
    lastCall.op = "matchesType"
    => /\ lastCall.pattern = Str("*") => lastCall.result
       /\ lastCall.pattern.kind = "str"
          => (lastCall.result <=> StringMatches(lastCall.pattern, lastCall.type))
       /\ lastCall.pattern.kind = "arr"
          => (lastCall.result
              <=> \E n \in 1..Len(lastCall.pattern.a) :
                      StringMatches(lastCall.pattern.a[n], lastCall.type))
       /\ lastCall.pattern.kind = "none" => ~lastCall.result

\* C24 witness: a list with the wildcard has matched a type that is not
\* in the list
C24_Witness ==
    /\ lastCall.op = "matchesType"
    /\ lastCall.pattern.kind = "arr"
    /\ lastCall.result
    /\ \A n \in 1..Len(lastCall.pattern.a) : lastCall.pattern.a[n].s # lastCall.type
    /\ \E n \in 1..Len(lastCall.pattern.a) : lastCall.pattern.a[n].s = "*"

\* the cancel set as the contract has it: the cancelType patterns, and the
\* unit's own type when latest is true
InCancelSet(logic, t) ==
    matchesType(logic.cancelType, t) \/ (logic.latest /\ matchesType(logic.type, t))

\* an action of type t handed to the entry point reaches the unit of
\* instance i in the same run: every unit before it lets it pass or
\* forwards it at once
ReachesUnitOf(i, t) ==
    \A j \in 1..(insts[i].unit - 1) :
        \/ ~matchesType(Logics[savedLogicArr[j]].type, t)
        \/ /\ Logics[savedLogicArr[j]].validate.sync
           /\ Logics[savedLogicArr[j]].debounce = 0
           /\ Logics[savedLogicArr[j]].throttle = 0

\* one step: an action that comes in cancels the live instances whose
\* unit it reaches and whose cancel set it is in, and no others; no other
\* step cancels an instance
CancelledExactlyByCancelSet ==
    /\ nEntry' = nEntry + 1
       => \A i \in Instances :
             (insts[i].cancelledAlive /\ ReachesUnitOf(i, entryResult'[nEntry'].type))
             => (Cancelled(i)'
                 <=> InCancelSet(Logics[insts[i].logic], entryResult'[nEntry'].type))
    /\ nEntry' = nEntry
       => \A i \in Instances : Cancelled(i)' <=> Cancelled(i)

\* the unit of instance i has latest false and no cancelType
NoCancelSet(i) ==
    ~Logics[insts[i].logic].latest /\ Logics[insts[i].logic].cancelType.kind = "none"

\* C25: a live instance is cancelled by an action that comes in exactly
\* when the type of the action matches the cancelType patterns of its
\* unit, or matches the unit's own type and latest is true; an instance of
\* a unit with latest false and no cancelType is never cancelled.
C25_CancelledByCancelSet ==
    /\ [][CancelledExactlyByCancelSet]_vars
    /\ [](\A i \in Instances : NoCancelSet(i) => ~Cancelled(i))

\* C25 witness: two instances of a unit with latest false and no
\* cancelType, the first of which dispatched to the store after the second
\* had begun; neither was cancelled and both have published end
C25_Witness ==
    \E i \in Instances, j \in Instances :
        /\ i < j /\ insts[i].logic = insts[j].logic
        /\ NoCancelSet(i)
        /\ \E n \in 1..Len(StoreCallsOf(i)) : StoreCallsOf(i)[n].begun >= j
        /\ Ended(i) /\ Ended(j)
        /\ ~Cancelled(i) /\ ~Cancelled(j)

CancelOps == {"cancelled", "dispCancelled"}

\* one step: an instance that is cancelled in it publishes cancelled when
\* interception had not completed, dispCancelled when it had
CancelEventByInterception ==
    \A i \in Instances :
        (~Cancelled(i) /\ Cancelled(i)')
        => CountOp(i, IF insts[i].interceptComplete
                      THEN "dispCancelled" ELSE "cancelled")' = 1

\* C26: when the cancellation signal fires on a live instance, exactly one
\* cancellation event is published for it, cancelled if interception had
\* not completed and dispCancelled if it had, and exactly one end event of
\* the instance follows it, as the next event of the instance.
C26_OneCancelEventThenEnd ==
    /\ [][CancelEventByInterception]_vars
    /\ [](\A i \in Instances :
             Cancelled(i)
             => /\ Cardinality(PlacesOf(i, CancelOps)) = 1
                /\ CountOp(i, "end") = 1
                /\ \A n \in PlacesOf(i, CancelOps) : PlacesOf(i, {"end"}) = {n + 1})

\* C26 witness: an instance cancelled after its interception had completed
\* has published dispCancelled and then end
C26_Witness ==
    \E i \in Instances :
        /\ CountOp(i, "dispCancelled") = 1
        /\ Ended(i)
        /\ insts[i].decided

\* the cancellation and end events instance i has published
CancelAndEndPlaces(i) == PlacesOf(i, CancelOps \cup {"end"})

\* C27: cancellation is idempotent: once an instance has published end or
\* was cancelled, no step publishes a cancelled, dispCancelled or end
\* event for it, and an action that comes in publishes no event for it at
\* all, so that the pending counter does not change on its behalf.
C27_CancelIdempotent ==
    [][\A i \in Instances :
          ~insts[i].cancelledAlive
          => /\ CancelAndEndPlaces(i)' = CancelAndEndPlaces(i)
             /\ (nEntry' = nEntry + 1) => (EventsOf(i)' = EventsOf(i))]_vars

\* C27 witness: an instance that published end without being cancelled,
\* and an action of its cancel set that has come in since
C27_Witness ==
    \E i \in Instances :
        /\ Ended(i) /\ ~Cancelled(i)
        /\ CountOp(i, "end") = 1
        /\ \E n \in 1..nEntry :
              /\ n > insts[i].action.id
              /\ InCancelSet(Logics[insts[i].logic], entryResult[n].type)

\* ------------------------------------------------------------------------
\* C28: the warning timer
\* ------------------------------------------------------------------------
\* the instances whose warning has been logged in this step
WarnedNow == { i \in Instances : i <= Len(insts') /\ ~insts[i].warned /\ insts'[i].warned }

\* the step is the logging of the warning of instance i and nothing else
OnlyWarns(i) ==
    /\ insts' = [insts EXCEPT ![i].warned = TRUE]
    /\ monitor' = monitor
    /\ pending' = pending
    /\ UNCHANGED << savedLogicArr, throwsOn, storeLog, nextLog, debHeld, throttled,
                    nEntry, entryResult, waiters, logicSub, apiVars >>

\* C28: the warning is logged for an instance only when warnTimeout > 0,
\* the build is not a production build and, at the time the timer fires,
\* the instance has published neither end nor a cancel event; logging it
\* publishes no monitor event and changes neither the pending counter nor
\* anything of the lifecycle of any instance
C28_WarnOnlyWhileRunning ==
    [][\A i \in WarnedNow :
          /\ Logics[insts[i].logic].warnTimeout > 0
          /\ NODE_ENV # "production"
          /\ ~Ended(i) /\ ~Cancelled(i)
          /\ OnlyWarns(i)]_vars

\* an instance whose warning was logged while it ran and which then went
\* on to end
C28_Witness ==
    \E i \in Instances : insts[i].warned /\ Ended(i) /\ insts[i].processed > 0

\* ------------------------------------------------------------------------
\* C29: the dispatch mode from the arity of the process hook
\* ------------------------------------------------------------------------
CreateLogicCalled == lastCall.op = "createLogic"

\* the option is in the result as the caller gave it: with the same value,
\* or left out as the caller left it out
AsGiven(name) ==
    IF name \in DOMAIN lastCall.given
    THEN name \in DOMAIN lastCall.result
         /\ lastCall.result[name] = lastCall.given[name]
    ELSE name \notin DOMAIN lastCall.result

\* the option is in the result as the caller gave it, and true when the
\* caller left it out
GivenOrTrue(name) ==
    IF name \in DOMAIN lastCall.given
    THEN AsGiven(name)
    ELSE name \in DOMAIN lastCall.result /\ lastCall.result[name] = TRUE

\* C29: with a process hook of arity 0 or 1 createLogic sets dispatchReturn
\* to true, with arity 3 or more it sets dispatchMultiple to true, with
\* arity 2 it sets neither; an option the caller gave in processOptions
\* keeps the value the caller gave, and the option the arity does not
\* select stays as the caller gave it or left it out
C29_ModeFromArity ==
    CreateLogicCalled =>
        /\ \A name \in DOMAIN lastCall.given : AsGiven(name)
        /\ lastCall.arity \in {0, 1} =>
              /\ GivenOrTrue("dispatchReturn")
              /\ AsGiven("dispatchMultiple")
        /\ lastCall.arity = 2 => lastCall.result = lastCall.given
        /\ lastCall.arity >= 3 =>
              /\ GivenOrTrue("dispatchMultiple")
              /\ AsGiven("dispatchReturn")

\* createLogic was called with a process hook of arity 1 and an explicit
\* dispatchReturn: false, which it kept
C29_Witness ==
    /\ CreateLogicCalled
    /\ lastCall.arity = 1
    /\ lastCall.given = [n \in {"dispatchReturn"} |-> FALSE]
    /\ lastCall.result = lastCall.given

\* ------------------------------------------------------------------------
\* C30: debounce and throttle act before an instance exists
\* ------------------------------------------------------------------------
\* the unit every incoming action is handed to first
First == Logics[savedLogicArr[1]]

\* the instances of the first unit for the n-th incoming action
StartedFor(n) == { i \in InstancesOf(1) : insts[i].action.id = n }

\* the begin events among the events published about the n-th incoming
\* action
BeginsIn(events, n) == { p \in 1..Len(events[n]) : events[n][p].op = "begin" }

BeginsFor(n) == BeginsIn(monitor, n)

\* the instances there are for the n-th incoming action, in any unit
InstancesFor(n) == { i \in Instances : insts[i].action.id = n }

\* the step starts no instance of the first unit
StartsNone == InstancesOf(1)' = InstancesOf(1)

\* the step starts no instance at all and publishes no begin event for the
\* n-th incoming action, which goes no further
Suppressed(n) ==
    /\ Len(insts') = Len(insts)
    /\ BeginsIn(monitor', n) = BeginsIn(monitor, n)

\* the step starts exactly one instance of the first unit, for this action,
\* with one begin event, and the instance has invoked its intercept hook
StartsOne(action) ==
    \E i \in Instances' :
        /\ i \notin Instances
        /\ InstancesOf(1)' = InstancesOf(1) \cup {i}
        /\ insts'[i].action = action
        /\ CountOp(i, "begin")' = 1
        /\ First.validate.sync => insts'[i].decided

\* one step at the first unit: an action that comes in and matches is held
\* back by debounce, dropped by throttle while the window is open, and
\* otherwise starts one instance (which opens the window); an action that
\* does not match starts none; apart from that only the timer of debounce
\* starts an instance, for the action held back
StartsAtFirstUnit ==
    IF nEntry' = nEntry + 1
    THEN LET action == entryResult'[nEntry']
         IN  IF ~matchesType(First.type, action.type) THEN StartsNone
             ELSE IF First.debounce > 0
             THEN Suppressed(nEntry + 1) /\ debHeld'[1] = action
             ELSE IF First.throttle > 0 /\ throttled[1]
             THEN Suppressed(nEntry + 1) /\ throttled'[1]
             ELSE StartsOne(action) /\ (First.throttle > 0 => throttled'[1])
    ELSE InstancesOf(1)' # InstancesOf(1) =>
            /\ First.debounce > 0
            /\ Truthy(debHeld[1])
            /\ ~Truthy(debHeld'[1])
            /\ StartsOne(debHeld[1])

\* begin events and instances go together: an action has as many begin
\* events as instances, so an action without instance has no begin event
\* and no invocation of an intercept hook; with both intervals 0 at the
\* first unit every matching action that has come in has exactly one
\* instance of that unit
BeginsAreInstances ==
    /\ \A n \in 1..MaxActions :
          Cardinality(BeginsFor(n)) = Cardinality(InstancesFor(n))
    /\ (First.debounce = 0 /\ First.throttle = 0) =>
          \A n \in Arrived : Cardinality(StartedFor(n)) = 1

\* C30: an action debounce or throttle suppresses gets no begin event and
\* no instance, hence no invocation of the intercept hook; with throttle
\* T > 0 the first matching action starts an instance and opens the
\* window, and the matching actions that come in while it is open start
\* none; with debounce and throttle 0 every matching action starts exactly
\* one instance.  Stated for the first unit, which is handed every action.
C30_LimitsBeforeInstance ==
    [][StartsAtFirstUnit]_vars /\ [](BeginsAreInstances)

\* two matching actions came in within one window of the throttle: the
\* first has its instance, the second has neither instance nor begin event
C30_Witness ==
    /\ First.throttle > 0
    /\ Arrived = {1, 2}
    /\ throttled[1]
    /\ Cardinality(StartedFor(1)) = 1
    /\ StartedFor(2) = {}
    /\ BeginsFor(2) = {}

\* ------------------------------------------------------------------------
\* C31: next throws
\* ------------------------------------------------------------------------
\* the places of the events of one op in the events about the n-th action
PlacesAt(n, ops) == { p \in 1..Len(monitor[n]) : monitor[n][p].op \in ops }

\* the places of the nextError events the subscriber of the outgoing
\* stream published about the n-th action
NextErrorsAt(n) ==
    { p \in PlacesAt(n, {"nextError"}) : monitor[n][p].inst = 0 }

\* the calls of next for the n-th action that threw
ThrowingCalls(n) ==
    { c \in 1..Len(nextLog[n]) : nextLog[n][c].type \in nextThrowsOn }

\* all the events published so far, per op
CountAll(ops) ==
    LET RECURSIVE Sum(_)
        Sum(n) == IF n = 0 THEN 0 ELSE Cardinality(PlacesAt(n, ops)) + Sum(n - 1)
    IN  Sum(MaxActions)

\* C31: when next throws on an action that leaves the pipeline, a nextError
\* event about that action is published and the bottom event for it
\* follows at once, so that there is one bottom event for each call of
\* next, thrown or not, and the pending counter counts the same as without
\* the exception; the actions that come in later and match no unit are
\* still handed to next.
C31_NextThrowStillBottom ==
    /\ \A n \in 1..MaxActions :
          /\ Cardinality(NextErrorsAt(n)) = Cardinality(ThrowingCalls(n))
          /\ \A p \in NextErrorsAt(n) :
                /\ p < Len(monitor[n])
                /\ monitor[n][p + 1] = Event("bottom", n, 0, monitor[n][p].act)
          /\ Cardinality(PlacesAt(n, {"bottom"})) = Len(nextLog[n])
    /\ pending = CountAll(Increments) - CountAll(Decrements)
    /\ \A n \in 1..nEntry : MatchesNoUnit(n) => nextLog[n] = << entryResult[n] >>

\* next threw on the first action, and the second action, which came in
\* later, was handed to next as well; nothing is pending
C31_Witness ==
    /\ NextErrorsAt(1) # {}
    /\ nEntry = 2
    /\ nextLog[2] # << >>
    /\ NextErrorsAt(2) # {}
    /\ pending = 0

\* ------------------------------------------------------------------------
\* C32: single-dispatch mode
\* ------------------------------------------------------------------------
\* instance i runs in single-dispatch mode, its process hook has called
\* dispatch(), and no cancellation has reached it
SingleMode(i) ==
    /\ Logics[insts[i].logic].process.arity = 2
    /\ ~Logics[insts[i].logic].processOptions.dispatchMultiple
    /\ insts[i].calls # << >>
    /\ ~Cancelled(i)

\* the one call of store.dispatch for the c-th dispatch() call of instance
\* i carried this action
StoredOnce(i, c, act) ==
    /\ Cardinality(StoreCallsFor(i, c)) = 1
    /\ \A n \in StoreCallsFor(i, c) : StoreCallsOf(i)[n].act = act

\* C32: in single-dispatch mode the first dispatch() call completes the
\* instance: dispatch$ is closed by it; an action it carries reaches the
\* store once and end follows; a promise it carries reaches the store once
\* it has settled (its value when it resolved, the error action when it
\* rejected) and end follows then, not before; without a value the
\* instance just ends; and no later dispatch() call of the instance
\* reaches the store.
C32_SingleDispatchCompletes ==
    \A i \in Instances :
        SingleMode(i) =>
            /\ insts[i].calls[1].live
            /\ insts[i].srcStopped
            /\ insts[i].calls[1].kind = "plain" =>
                  StoredOnce(i, 1, PlainVal(i, 1)) /\ Ended(i)
            /\ insts[i].calls[1].kind = "undefined" =>
                  StoreCallsFor(i, 1) = {} /\ Ended(i)
            /\ insts[i].calls[1].kind = "promise" =>
                  /\ 1 \in insts[i].resolved =>
                        StoredOnce(i, 1, PlainVal(i, 1)) /\ Ended(i)
                  /\ 1 \in insts[i].rejected =>
                        StoredOnce(i, 1, Unhandled(ErrVal(i, 1))) /\ Ended(i)
                  /\ 1 \in insts[i].promises =>
                        StoreCallsFor(i, 1) = {} /\ ~Ended(i)
            /\ \A c \in 2..Len(insts[i].calls) :
                  ~insts[i].calls[c].live /\ StoreCallsFor(i, c) = {}
            /\ CountOp(i, "end") <= 1
            /\ \A n \in PlacesOf(i, {"end"}), m \in PlacesOf(i, {"dispatch"}) : m < n

\* an instance in single-dispatch mode dispatched a promise and then an
\* action: the promise resolved and its value is in the store, the action
\* is not, and the instance has ended
C32_Witness ==
    \E i \in Instances :
        /\ SingleMode(i)
        /\ Len(insts[i].calls) = 2
        /\ insts[i].calls[1].kind = "promise"
        /\ insts[i].calls[2].kind = "plain"
        /\ 1 \in insts[i].resolved
        /\ StoredOnce(i, 1, PlainVal(i, 1))
        /\ StoreCallsFor(i, 2) = {}
        /\ Ended(i)

\* ------------------------------------------------------------------------
\* C33: allow or reject after the cancellation
\* ------------------------------------------------------------------------
\* instance i was cancelled before its interception completed
CancelledInIntercept(i) == CountOp(i, "cancelled") > 0

\* the calls of next made with an action instance i forwarded
ForwardedBy(i) ==
    { p \in PlacesOf(i, {"next"}) :
        \E c \in 1..Len(nextLog[insts[i].action.id]) :
            nextLog[insts[i].action.id][c] = EventsOf(i)[p].act }

\* C33: the process hook is never invoked for an instance that was
\* cancelled before its interception completed, also when the intercept
\* hook calls allow after the cancellation; the late allow or reject
\* forwards nothing to next and dispatches nothing to the store.
C33_NoProcessAfterCancel ==
    \A i \in Instances :
        CancelledInIntercept(i) =>
            /\ insts[i].processed = 0
            /\ StoreCallsOf(i) = << >>
            /\ ForwardedBy(i) = {}

\* ------------------------------------------------------------------------
\* C34: an error ends the instance
\* ------------------------------------------------------------------------
\* the promise of the c-th dispatch() call of instance i rejected while
\* dispatch$ was subscribed to it: no other error, no cancellation and no
\* exception of the store had ended the instance before
RejectDrained(i, c) ==
    /\ c \in 1..Len(insts[i].calls)
    /\ insts[i].calls[c].kind = "promise"
    /\ insts[i].calls[c].live
    /\ insts[i].rejected = {c}
    /\ \A d \in 1..Len(insts[i].calls) : ~Drained(i, d)
    /\ ~Cancelled(i)
    /\ ~StoreThrewFor(i)

\* the error value of the c-th dispatch() call of instance i was drained
ErrorDrained(i, c) == Drained(i, c) \/ RejectDrained(i, c)

\* the instance has ended, once, and nothing of it reached the store
\* after that: the error action is the last it dispatched, and no
\* dispatch() call made after the error found dispatch$ open
EndedForGood(i, c) ==
    /\ CountOp(i, "end") = 1
    /\ \A n \in PlacesOf(i, {"end"}), m \in PlacesOf(i, {"dispatch"}) : m < n
    /\ \A n \in StoreCallsFor(i, c) : n = Len(StoreCallsOf(i))
    /\ \A d \in 1..Len(insts[i].calls) :
          (d > c /\ Drained(i, c)) =>
              ~insts[i].calls[d].live /\ StoreCallsFor(i, d) = {}

\* C34 (as claimed): when an error value is drained from the dispatch
\* queue of an instance, the instance dispatches exactly one error action
\* and then ends; what the instance has queued or dispatches afterwards is
\* dropped, in multi-dispatch mode too, done() called or not.
C34_ErrorOneActionThenEnd ==
    \A i \in Instances, c \in 1..(MaxDispatch + 1) :
        ErrorDrained(i, c) =>
            /\ Cardinality(StoreCallsFor(i, c)) = 1
            /\ EndedForGood(i, c)

\* failType is an action creator that returns nothing for the error
NoErrorAction(i) ==
    /\ Logics[insts[i].logic].processOptions.failType.kind = "fn"
    /\ ~Truthy(mapToAction(Logics[insts[i].logic].processOptions.failType,
                           Undefined, TRUE))

\* C34 (amended): when an error value is drained from the dispatch queue of
\* an instance, the instance dispatches at most one error action, exactly
\* one unless failType is an action creator that returns nothing for it,
\* and then ends; what the instance has queued or dispatches afterwards is
\* dropped, in multi-dispatch mode too, done() called or not.
C34_ErrorThenEnd ==
    \A i \in Instances, c \in 1..(MaxDispatch + 1) :
        ErrorDrained(i, c) =>
            /\ Cardinality(StoreCallsFor(i, c)) = IF NoErrorAction(i) THEN 0 ELSE 1
            /\ EndedForGood(i, c)

\* an instance in multi-dispatch mode dispatched a promise and then an
\* Error, without calling done(): the error action is in the store, the
\* instance has ended, and the value the promise resolved to afterwards is
\* not in the store
C34_Witness ==
    \E i \in Instances :
        /\ MultiMode(i)
        /\ ~insts[i].doneCalled
        /\ Len(insts[i].calls) = 2
        /\ insts[i].calls[1].kind = "promise"
        /\ Drained(i, 2)
        /\ 1 \in insts[i].resolved
        /\ StoreCallsFor(i, 1) = {}
        /\ Cardinality(StoreCallsFor(i, 2)) = 1
        /\ Ended(i)

\* ------------------------------------------------------------------------
\* C35: the action that starts an instance does not cancel it
\* ------------------------------------------------------------------------
\* the instances of units with latest: true there are after the step
LatestAfter == { i \in 1..Len(insts') : Logics[insts'[i].logic].latest }

\* one step: an instance of a unit with latest: true that begins in the
\* step is not cancelled in it (and listens for cancellations as long as
\* it has not ended); one that was there is cancelled only by an
\* action that comes in in this step, after the action the instance
\* began for, and that is in the cancel set of the unit
CancelledOnlyByLater ==
    \A i \in LatestAfter :
        IF i \notin Instances
        THEN /\ ~Cancelled(i)'
             /\ ~Ended(i)' => insts'[i].cancelledAlive
        ELSE (~Cancelled(i) /\ Cancelled(i)') =>
                /\ nEntry' = nEntry + 1
                /\ entryResult'[nEntry'].id > insts[i].action.id
                /\ InCancelSet(Logics[insts[i].logic], entryResult'[nEntry'].type)

\* C35: for a unit with latest: true, the action that starts an instance
\* never cancels that instance; only an action of its cancel set that
\* comes in after the instance has begun cancels it.
C35_StarterNeverCancels ==
    [][CancelledOnlyByLater]_vars

\* a unit with latest: true has two instances: the first was cancelled by
\* the action that started the second, which goes on uncancelled
C35_Witness ==
    \E i \in Instances, j \in Instances :
        /\ i < j /\ insts[i].unit = insts[j].unit
        /\ Logics[insts[i].logic].latest
        /\ insts[j].action.type = insts[i].action.type
        /\ Cancelled(i)
        /\ ~Cancelled(j) /\ ~Ended(j)
        /\ insts[j].cancelledAlive

\* ------------------------------------------------------------------------
\* C36: what whenComplete promises
\* ------------------------------------------------------------------------
\* the promises of whenComplete that resolve in this step
ResolvedNow ==
    { w \in 1..Len(waiters') :
        /\ waiters'[w].resolved # << >>
        /\ w \in 1..Len(waiters) => waiters[w].resolved = << >> }

\* instance i has begun and has not ended
InFlight(i) == CountOp(i, "begin") > 0 /\ ~Ended(i)

\* the n-th incoming action has its top event and none of the events that
\* close it
Open(n) ==
    /\ PlacesAt(n, {"top"}) # {}
    /\ PlacesAt(n, {"bottom", "filtered", "nextDisp", "cancelled"}) = {}

\* nothing is going on
AllComplete ==
    /\ \A i \in Instances : ~InFlight(i)
    /\ \A n \in 1..MaxActions : ~Open(n)

\* C36: whenever the promise of whenComplete resolves, no instance is in
\* flight and no action is between its top event and the event that closes
\* it, whatever the interleaving of actions, hook callbacks and
\* cancellations.
C36_ResolvesWhenAllComplete ==
    [][ResolvedNow # {} => AllComplete']_vars

\* ---------------------------------------------------------------------
\* C37: when addLogic, mergeNewLogic, replaceLogic or addDeps throws, the
\* registered units, the unit count, the pipeline subscription and every
\* key of the dependency map are what they were before the call.
Registering == {"addLogic", "mergeNewLogic", "replaceLogic", "addDeps"}

ThrewNow == lastCall'.op \in Registering /\ lastCall'.threw

C37_ThrowChangesNothing ==
    [][ThrewNow => /\ savedLogicArr' = savedLogicArr
                   /\ logicCount' = logicCount
                   /\ logicSub' = logicSub
                   /\ \A k \in DepKeys : deps'[k] = deps[k]]_vars

====
